---- MODULE Spec2Model ----
(***************************************************************************)
(* A model of memfd-exec: the builder (MemFdExecutable), the spawn         *)
(* protocol (setup_io, control pipe, fork, do_exec in the child, the       *)
(* parent's read loop) and the process handle (Process::wait / try_wait /  *)
(* kill).  Descriptors are numbers into a per-process descriptor table;    *)
(* the Rust wrappers (FileDesc, AnonPipe, ChildStdio) hold numbers, so a   *)
(* wrapper whose number was closed behind its back is representable.       *)
(***************************************************************************)
EXTENDS Integers, Sequences, FiniteSets, TLC

\* ------------------------------------------------------------------ bounds
\* Size of a process's descriptor table (RLIMIT_NOFILE): an open, pipe2 or
\* dup that finds no free number fails with EMFILE.
FdLimit == 10
\* How many times a blocking call (read on the control pipe, waitpid) is
\* interrupted by a signal (EINTR) in one run.
MaxIntr == 1
\* How many operations the caller invokes on one process handle.
MaxOps == 4
\* How many arguments the caller adds to one builder.
MaxArgs == 1
\* How many bytes a pipe holds before a write to it blocks.
PipeCap == 1
\* How many bytes the child writes to one stream, or the caller to stdin, at
\* most: more than a pipe holds.
MaxOut == PipeCap + 1

\* ------------------------------------------------------- program constants
STDERR_FILENO == 2

Slots == 0..STDERR_FILENO
Fds == 0..(FdLimit - 1)
NoFd == -1
NoStatus == -1
\* The pids fork may return.
Pids == {101}
\* Raw wait statuses: killed by SIGKILL; exit(0) and exit(42); exit(101) (a
\* Rust panic that reached the top of the thread) and SIGABRT with a core
\* dump (a panic in a panic=abort build).
KilledStatus == 9
ExitStatuses == {0, 10752}

\* The exit codes and the signal numbers of the platform.
ExitCodes == 0..255
Signals == 1..64
\* The raw status waitpid stores for a child that called exit(c), and for
\* one terminated by signal sig (with or without a core dump).
WExitCode(c) == (c % 256) * 256
WSignaled(sig, core) == sig + (IF core THEN 128 ELSE 0)
\* libc's macros on a raw status: the low 7 bits are the terminating
\* signal (0: exited, 127: stopped), bits 8..15 the exit code.
WTERMSIG(st) == st % 128
WIFEXITED(st) == WTERMSIG(st) = 0
WEXITSTATUS(st) == (st \div 256) % 256
\* A WIFSIGNALED that only asks for a nonzero signal field.
WIFSIGNALEDNonZero(st) == WTERMSIG(st) # 0
WIFSIGNALED(st) == WTERMSIG(st) # 0 /\ WTERMSIG(st) # 127
\* A stopped child has 0x7f in the low byte and the stop signal above it; a
\* continued one is the value 0xffff; bit 7 is the core-dump flag.
WIFSTOPPED(st) == st % 256 = 127
WSTOPSIG(st) == (st \div 256) % 256
WIFCONTINUED(st) == st = 65535
WCOREDUMP(st) == (st \div 128) % 2 = 1
\* ExitStatus::exited
exited(st) == WIFEXITED(st)
\* A code() that does not ask whether the child exited.
ExitStatusCodeUnchecked(st) == [tag |-> "Some", st |-> WEXITSTATUS(st)]
\* ExitStatus::code: self.exited().then(|| WEXITSTATUS(self.0))
ExitStatusCode(st) ==
    IF exited(st) THEN [tag |-> "Some", st |-> WEXITSTATUS(st)]
                  ELSE [tag |-> "None", st |-> NoStatus]
\* ExitStatus::signal: WIFSIGNALED(self.0).then(|| WTERMSIG(self.0))
ExitStatusSignal(st) ==
    IF WIFSIGNALED(st) THEN [tag |-> "Some", st |-> WTERMSIG(st)]
                       ELSE [tag |-> "None", st |-> NoStatus]

\* ExitStatus::core_dumped, stopped_signal, continued, into_raw
core_dumped(st) == WIFSIGNALED(st) /\ WCOREDUMP(st)
stopped_signal(st) ==
    IF WIFSTOPPED(st) THEN [tag |-> "Some", st |-> WSTOPSIG(st)]
                      ELSE [tag |-> "None", st |-> NoStatus]
continued(st) == WIFCONTINUED(st)
into_raw(st) == st
\* c_int::try_from(self.0) on a c_int: the conversion of a type to itself
\* never fails.
TryFromCInt(v) == [tag |-> "Ok", st |-> v]
\* ExitStatus::exit_ok: Ok(failure) of the conversion is
\* Err("process exited with status {failure}"), Err(_) is Ok(()).
exit_ok(st) ==
    IF TryFromCInt(st).tag = "Ok"
    THEN [tag |-> "Err", st |-> TryFromCInt(st).st]
    ELSE [tag |-> "Ok", st |-> NoStatus]
\* A bool returned to the caller.
BoolRet(b) == [tag |-> IF b THEN "true" ELSE "false", st |-> NoStatus]
\* The raw values an ExitStatus is built from: every low byte under the
\* high bytes 0, 1, 19, 255, the all-ones c_int and a value above 16 bits.
RawStatuses ==
    {lo + 256 * hi : lo \in 0..255, hi \in {0, 1, 19, 255}} \cup {-1, 131071}

\* ------------------------------------------------------ descriptor tables
Obj(k, id, e) == [k |-> k, id |-> id, e |-> e]
Entry(o, cx) == [obj |-> o, cx |-> cx]
Closed == Entry(Obj("closed", 0, "-"), FALSE)
Tty(slot) == Obj("tty", slot, "rw")
UserObj == Obj("user", 0, "rw")
NullObj(mode) == Obj("null", 0, mode)
PipeObj(id, e) == Obj("pipe", id, e)
MemfdObj == Obj("memfd", 0, "rw")
\* The control pipe is pipe number 3; the stdio pipes are numbered by slot.
CtlId == 3

IsOpen(tbl, n) == n \in Fds /\ tbl[n] # Closed
FreeFds(tbl) == {n \in Fds : tbl[n] = Closed}
\* POSIX: a new descriptor gets the lowest free number.
LowestFree(tbl) == CHOOSE n \in FreeFds(tbl) : \A m \in FreeFds(tbl) : n <= m
Install(tbl, n, o, cx) == [tbl EXCEPT ![n] = Entry(o, cx)]
\* close(2) on every number of S (a number that is not open gives EBADF,
\* which OwnedFd's drop ignores).
CloseSet(tbl, S) == [n \in Fds |-> IF n \in S THEN Closed ELSE tbl[n]]
AllClosed == [n \in Fds |-> Closed]
\* An exec across which every descriptor stays open, as when none was
\* created close-on-exec.
CloseOnExecNone(tbl) == tbl
\* execve closes every close-on-exec descriptor.
CloseOnExec(tbl) == [n \in Fds |-> IF tbl[n].cx THEN Closed ELSE tbl[n]]
\* dup2(src, dst): dst refers to src's object, with close-on-exec cleared.
Dup2(tbl, src, dst) ==
    IF src = dst THEN tbl ELSE [tbl EXCEPT ![dst] = Entry(tbl[src].obj, FALSE)]

\* ----------------------------------------------------------------- Stdio
Cfg(kind, fd) == [kind |-> kind, fd |-> fd]
Unset == Cfg("Unset", NoFd)
Inherit == Cfg("Inherit", NoFd)
Null == Cfg("Null", NoFd)
MakePipe == Cfg("MakePipe", NoFd)
\* Caller-supplied descriptors for Stdio::Fd: two in the standard range and
\* one above it.
FdInputs == {1, 2, 3}
StdioCfgs == {Unset, Inherit, Null, MakePipe} \cup {Cfg("Fd", n) : n \in FdInputs}

ChildStdio(tag, fd) == [tag |-> tag, fd |-> fd]
CInherit == ChildStdio("Inherit", NoFd)

\* errno values (libc); NoErrno is io::Error::raw_os_error() = None.
NoErrno == 0
ENOENT == 2
ENOEXEC == 8
EBADF == 9
EAGAIN == 11
ENOMEM == 12
EMFILE == 24
EINTR == 4
ENOSPC == 28

Res(tag, errno) == [tag |-> tag, errno |-> errno]
\* What a call on the handle returned: Ok(status), Some(status), None, ...
Ret(tag, st) == [tag |-> tag, st |-> st]
NoRes == Res("none", NoErrno)

\* ------------------------------------------- strings, argv, environment
\* Strings are atoms; the ones below stand for byte strings with an embedded
\* NUL byte, which CString::new rejects.
NulStrings == {"a\\0b", "d\\0", "v\\0", "p\\0"}
HasNul(s) == s \in NulStrings
\* os2c: the CString of s, or of "<string-with-nul>" when s holds a NUL (the
\* caller's saw_nul flag is then set).
os2c(s) == IF HasNul(s) THEN "<string-with-nul>" ELSE s

\* Environment variable names in BTreeMap (sorted) order, and what a name
\* maps to: Absent in a process environment or captured map; in the diff
\* (CommandEnv.vars) NotInMap for no entry and Removed for an entry None.
KeySeq == <<"PATH", "X">>
Keys == {KeySeq[i] : i \in 1..Len(KeySeq)}
Vals == {"1", "v\\0"}
Absent == "(absent)"
NotInMap == "(no entry)"
Removed == "(None)"
EmptyEnv == [k \in Keys |-> Absent]
\* CommandEnv::default
DefaultEnv == [clear |-> FALSE, vars |-> [k \in Keys |-> NotInMap]]
\* CommandEnv::set, remove, clear
CommandEnvSet(e, k, v) == [e EXCEPT !.vars[k] = v]
CommandEnvRemove(e, k) ==
    [e EXCEPT !.vars[k] = IF e.clear THEN NotInMap ELSE Removed]
\* A clear that keeps the recorded changes.
CommandEnvClearKeepsVars(e) == [e EXCEPT !.clear = TRUE]
CommandEnvClear(e) == [clear |-> TRUE, vars |-> [k \in Keys |-> NotInMap]]
\* CommandEnv::capture: the diff applied to the process environment, or to
\* an empty map when the diff is cleared.
Capture(e, base) ==
    [k \in Keys |->
        CASE e.vars[k] = NotInMap -> (IF e.clear THEN Absent ELSE base[k])
          [] e.vars[k] = Removed -> Absent
          [] OTHER -> e.vars[k]]
IsUnchanged(e) == ~e.clear /\ \A k \in Keys : e.vars[k] = NotInMap
\* An Option<Vec<CString>>: None, or Some(list).
NoEnvp == [some |-> FALSE, list |-> <<>>]
SomeEnvp(list) == [some |-> TRUE, list |-> list]
\* construct_envp: one "NAME=value" entry per variable, in key order; an
\* entry with a NUL byte is left out (and saw_nul is set).
EnvEntry(k, v) == <<k, "=", v>>
EntryOk(m, k) == m[k] # Absent /\ ~HasNul(k) /\ ~HasNul(m[k])
construct_envp(m) ==
    LET kept == SelectSeq(KeySeq, LAMBDA k : EntryOk(m, k))
    IN  [i \in 1..Len(kept) |-> EnvEntry(kept[i], m[kept[i]])]
EnvpSawNul(m) == \E k \in Keys : m[k] # Absent /\ (HasNul(k) \/ HasNul(m[k]))
\* The environment a process image sees in an envp array: the value of the
\* first entry for the name.
EnvOf(list) ==
    [k \in Keys |->
        IF \E i \in 1..Len(list) : list[i][1] = k
        THEN list[CHOOSE i \in 1..Len(list) :
                    /\ list[i][1] = k
                    /\ \A j \in 1..Len(list) : list[j][1] = k => i <= j][3]
        ELSE Absent]
\* ------------------------------------------------ stdio pipes' contents
\* The two output streams.
Outs == {1, 2}
Other(s) == IF s = 1 THEN 2 ELSE 1
\* The bytes 1, 2, .., n: each byte of a stream is its position, so a lost,
\* repeated or misplaced byte shows.
Bytes(n) == [i \in 1..n |-> i]
NoBytes == [s \in Slots |-> <<>>]
\* What the program image does: "silent" writes nothing; "writer" writes
\* out[1] to its stdout and out[2] to its stderr, in any interleaving; "cat"
\* copies its stdin to its stdout up to end of file.  Each exits when done.
Prog(kind, o1, o2) == [kind |-> kind, out |-> (1 :> o1 @@ 2 :> o2)]
SilentProg == Prog("silent", <<>>, <<>>)
Progs == {Prog("writer", Bytes(n1), Bytes(n2)) : n1 \in 0..MaxOut,
                                                   n2 \in 0..MaxOut}
         \cup {Prog("cat", <<>>, <<>>)}
\* An Output whose two buffers are exchanged.
OutputSwapped(st, o, e) == [status |-> st, stdout |-> e, stderr |-> o]
\* Output { status, stdout, stderr }
Output(st, o, e) == [status |-> st, stdout |-> o, stderr |-> e]
NoOutput == Output(NoStatus, <<>>, <<>>)

VARIABLES
    \* the bytes in each stdio pipe, by slot
    pipes,
    \* the program image, and what it has written to each stream so far
    prog, wrote,
    \* the bytes the caller still has to write to the child's stdin, and the
    \* descriptor of the ChildStdin it took out of the Child (child.stdin.take())
    stdinLeft, taken,
    \* wait_with_output: the two Vecs, poll's revents, O_NONBLOCK of the two
    \* read ends, and the Output returned
    vecs, revents, nonblock, outputRet,
    \* MemFdExecutable
    code, cwd, stdin, stdout, stderr, argv, env, saw_nul,
    \* the process environment of the caller (environ)
    environ,
    \* spawn's envp, and what fexecve handed to the new image
    envp, image,
    \* the two processes' descriptor tables and the control pipe's content
    pfds, cfds, ctlBuf,
    \* spawn's locals in the parent
    pc, ours, theirs, input, output, nintr, result,
    \* the child process: its position, what failed, the memfd
    proc, cpc, cfail, cerr, mfd, exitStatus,
    \* Process (the handle) and its caller
    pid, status, hpc, lastCall, ret, nops, waitpidCalls, signals, sigPending,
    \* the access mode of each open of the null device, per slot
    nullMode,
    \* what the last input.read(&mut bytes) of spawn's loop returned
    readRet,
    \* the child's working directory, signal mask and SIGPIPE disposition
    cstate,
    \* the environment obtained by making each env call on a copy of environ
    envRef,
    \* MemFdExecutable.program
    program

ioVars == <<pipes, prog, wrote, stdinLeft, taken, vecs, revents, nonblock,
           outputRet>>

vars == <<pipes, prog, wrote, stdinLeft, taken, vecs, revents, nonblock,
          outputRet, code, cwd, stdin, stdout, stderr, argv, env, saw_nul, environ,
          envp, image, pfds, cfds, ctlBuf,
          pc, ours, theirs, input, output, nintr, result,
          proc, cpc, cfail, cerr, mfd, exitStatus,
          pid, status, hpc, lastCall, ret, nops, waitpidCalls, signals,
          sigPending, nullMode, readRet, cstate, envRef, program>>

builderVars == <<code, cwd, stdin, stdout, stderr, argv, env, saw_nul,
                 environ, envRef, program>>
execVars == <<envp, image>>
NoImage == [argv |-> <<>>, envp |-> <<>>]
childVars == <<proc, cpc, cfail, cerr, mfd, exitStatus, cstate>>
handleVars == <<pid, status, hpc, lastCall, ret, nops, waitpidCalls,
                signals, sigPending>>
\* No read of the control pipe has returned yet.
ReadRet(tag, b, e) == [tag |-> tag, bytes |-> b, errno |-> e]
NoRead == ReadRet("none", <<>>, NoErrno)
spawnVars == <<pc, ours, theirs, input, output, nintr, result, pfds, nullMode,
               readRet>>

\* What a process inherits across fork besides its descriptors: the working
\* directory, the signal mask and the disposition of SIGPIPE.  A Rust program
\* runs with SIGPIPE ignored; the caller may have blocked signals.  `memfd`
\* is how much of the image the child's in-memory file holds ("none": no
\* such file).
ProcState(dir, mask, sigpipe, mem) ==
    [cwd |-> dir, sigmask |-> mask, sigpipe |-> sigpipe, memfd |-> mem]
CallerState == ProcState("start", "caller", "SIG_IGN", "none")
\* do_exec: sigemptyset + pthread_sigmask(SIG_SETMASK), signal(SIGPIPE, SIG_DFL)
SigReset(st) == [st EXCEPT !.sigmask = "empty", !.sigpipe = "SIG_DFL"]
ResetState == SigReset(CallerState)

\* The caller's process environment.
ParentEnv == [k \in Keys |-> IF k = "PATH" THEN "/bin" ELSE Absent]

\* The caller's descriptor table before spawn: its three standard streams
\* and `nuser` descriptors of its own, on the numbers from 3 up.
ParentTable(nuser) ==
    [n \in Fds |-> IF n \in Slots THEN Entry(Tty(n), FALSE)
                   ELSE IF n < 3 + nuser THEN Entry(UserObj, TRUE)
                   ELSE Closed]
\* How many descriptors of its own the caller holds: none, one, or so many
\* that only two numbers are left below the limit.
UserFdCounts == {0, 1, FdLimit - 5}

\* No byte is in a pipe, nothing was taken out of the Child, no
\* wait_with_output is under way.
IoIdle ==
    /\ pipes = NoBytes /\ wrote = NoBytes
    /\ taken = NoFd
    /\ vecs = (1 :> <<>> @@ 2 :> <<>>)
    /\ revents = (1 :> FALSE @@ 2 :> FALSE)
    /\ nonblock = (1 :> FALSE @@ 2 :> FALSE)
    /\ outputRet = NoOutput

\* MemFdExecutable::new(name, code): the name goes through os2c into program
\* and argv[0]; no stdio configured, no working directory.
MemFdExecutableNew(name) ==
    /\ code \in {"elf", "garbage"}
    /\ cwd = "None"
    /\ stdin = Unset /\ stdout = Unset /\ stderr = Unset
    /\ program = os2c(name)
    /\ argv = <<os2c(name)>> /\ env = DefaultEnv /\ saw_nul = HasNul(name)
    /\ environ = ParentEnv /\ envRef = ParentEnv
    /\ envp = NoEnvp /\ image = NoImage
    /\ \E nuser \in UserFdCounts : pfds = ParentTable(nuser)
    /\ cfds = AllClosed
    /\ ctlBuf = <<>>
    /\ pc = "builder"
    /\ ours = [s \in Slots |-> NoFd]
    /\ theirs = [s \in Slots |-> CInherit]
    /\ input = NoFd /\ output = NoFd
    /\ nintr = 0
    /\ readRet = NoRead
    /\ cstate = CallerState
    /\ result = NoRes
    /\ proc = "none" /\ cpc = "none"
    /\ cfail = NoRes /\ cerr = NoRes
    /\ mfd = NoFd
    /\ exitStatus = NoStatus
    /\ pid = 0 /\ status = NoStatus /\ hpc = "none"
    /\ lastCall = "none" /\ ret = Ret("none", NoStatus)
    /\ nops = 0 /\ waitpidCalls = 0
    /\ signals = <<>> /\ sigPending = FALSE
    /\ nullMode = [s \in Slots |-> "none"]
    /\ IoIdle

\* MemFdExecutable::new("prog", code)
New == MemFdExecutableNew("prog")

\* A new builder for an image that writes nothing and reads nothing.
Init == New /\ prog = SilentProg /\ stdinLeft = <<>>

\* ------------------------------------------------------------- the builder
SetStdin(cfg) ==
    /\ pc = "builder"
    /\ cfg.kind = "Fd" => IsOpen(pfds, cfg.fd)
    /\ stdin' = cfg
    /\ UNCHANGED <<code, cwd, stdout, stderr, argv, env, saw_nul, environ, cfds,
                   ctlBuf, childVars, handleVars, spawnVars>>
    /\ UNCHANGED execVars
    /\ UNCHANGED ioVars
    /\ UNCHANGED envRef
    /\ UNCHANGED program

SetStdout(cfg) ==
    /\ pc = "builder"
    /\ cfg.kind = "Fd" => IsOpen(pfds, cfg.fd)
    /\ stdout' = cfg
    /\ UNCHANGED <<code, cwd, stdin, stderr, argv, env, saw_nul, environ, cfds,
                   ctlBuf, childVars, handleVars, spawnVars>>
    /\ UNCHANGED execVars
    /\ UNCHANGED ioVars
    /\ UNCHANGED envRef
    /\ UNCHANGED program

SetStderr(cfg) ==
    /\ pc = "builder"
    /\ cfg.kind = "Fd" => IsOpen(pfds, cfg.fd)
    /\ stderr' = cfg
    /\ UNCHANGED <<code, cwd, stdin, stdout, argv, env, saw_nul, environ, cfds,
                   ctlBuf, childVars, handleVars, spawnVars>>
    /\ UNCHANGED execVars
    /\ UNCHANGED ioVars
    /\ UNCHANGED envRef
    /\ UNCHANGED program

\* MemFdExecutable::cwd: os2c(dir, &mut self.saw_nul).
SetCwd(dir) ==
    /\ pc = "builder"
    /\ cwd' = os2c(dir)
    /\ saw_nul' = (saw_nul \/ HasNul(dir))
    /\ UNCHANGED <<code, stdin, stdout, stderr, argv, env, environ, cfds,
                   ctlBuf, childVars, handleVars, spawnVars>>
    /\ UNCHANGED execVars
    /\ UNCHANGED ioVars
    /\ UNCHANGED envRef
    /\ UNCHANGED program

\* MemFdExecutable::arg: os2c(arg, &mut self.saw_nul), pushed onto argv.
Arg(a) ==
    /\ pc = "builder"
    /\ Len(argv) <= MaxArgs
    /\ argv' = Append(argv, os2c(a))
    /\ saw_nul' = (saw_nul \/ HasNul(a))
    /\ UNCHANGED <<code, cwd, stdin, stdout, stderr, env, environ, cfds,
                   ctlBuf, childVars, handleVars, spawnVars>>
    /\ UNCHANGED execVars
    /\ UNCHANGED ioVars
    /\ UNCHANGED envRef
    /\ UNCHANGED program

\* MemFdExecutable::set_program: os2c(program, &mut self.saw_nul) is stored
\* in argv[0] (and args[0]); self.program is not assigned.
SetProgram(name) ==
    /\ pc = "builder"
    /\ argv' = [argv EXCEPT ![1] = os2c(name)]
    /\ saw_nul' = (saw_nul \/ HasNul(name))
    /\ UNCHANGED <<code, cwd, stdin, stdout, stderr, env, environ, cfds,
                   ctlBuf, childVars, handleVars, spawnVars>>
    /\ UNCHANGED execVars
    /\ UNCHANGED ioVars
    /\ UNCHANGED envRef
    /\ UNCHANGED program

\* MemFdExecutable::env, env_remove, env_clear: the change goes into the
\* CommandEnv.
SetEnv(k, v) ==
    /\ pc = "builder"
    /\ env' = CommandEnvSet(env, k, v)
    /\ UNCHANGED <<code, cwd, stdin, stdout, stderr, argv, saw_nul, environ,
                   cfds, ctlBuf, childVars, handleVars, spawnVars>>
    /\ UNCHANGED execVars
    /\ UNCHANGED ioVars
    /\ envRef' = [envRef EXCEPT ![k] = v]
    /\ UNCHANGED program

EnvRemove(k) ==
    /\ pc = "builder"
    /\ env' = CommandEnvRemove(env, k)
    /\ UNCHANGED <<code, cwd, stdin, stdout, stderr, argv, saw_nul, environ,
                   cfds, ctlBuf, childVars, handleVars, spawnVars>>
    /\ UNCHANGED execVars
    /\ UNCHANGED ioVars
    /\ envRef' = [envRef EXCEPT ![k] = Absent]
    /\ UNCHANGED program

EnvClear ==
    /\ pc = "builder"
    /\ env' = CommandEnvClear(env)
    /\ UNCHANGED <<code, cwd, stdin, stdout, stderr, argv, saw_nul, environ,
                   cfds, ctlBuf, childVars, handleVars, spawnVars>>
    /\ UNCHANGED execVars
    /\ UNCHANGED ioVars
    /\ envRef' = EmptyEnv
    /\ UNCHANGED program

\* ------------------------------------------------------------ setup_io
\* setup_io's unwrap_or(default): an unset stream is Stdio::Inherit
\* (needs_stdin is true, so stdin's default is `default` too).
EffCfg(slot) ==
    LET c == CASE slot = 0 -> stdin [] slot = 1 -> stdout [] OTHER -> stderr
    IN  IF c = Unset THEN Inherit ELSE c

IoPc(slot) == CASE slot = 0 -> "io_stdin" [] slot = 1 -> "io_stdout"
                [] OTHER -> "io_stderr"
AfterIo(slot) == CASE slot = 0 -> "io_stdout" [] slot = 1 -> "io_stderr"
                   [] OTHER -> "anon_pipe"

\* The descriptor numbers held by live wrappers of spawn's frame.
OwnedFds(th) == {th[s].fd : s \in {t \in Slots : th[t].tag = "Owned"}}
OursFds(o) == {o[s] : s \in Slots} \ {NoFd}

\* File::open(path): read-only, whatever `opts` was set to.
NullOpenMode(readable) == "r"

\* Stdio::Null: `File::open(path)?.as_raw_fd()` takes the number of a
\* temporary File, which is dropped (closed) at the end of the statement;
\* the FileDesc built from the number owns a closed descriptor.
OpenNull(tbl, readable) ==
    LET n == LowestFree(tbl)
        opened == Install(tbl, n, NullObj(NullOpenMode(readable)), TRUE)
    IN  [fd |-> n, tbl |-> CloseSet(opened, {n})]

\* An early return by `?` that forgets (leaks) the wrappers of the frame.
SetupFailLeaks(errno) ==
    /\ pfds' = pfds
    /\ result' = Res("Err", errno)
    /\ pc' = "done"
    /\ UNCHANGED <<ours, theirs, input, output, nintr, nullMode>>

\* An early return by `?` before the fork: every wrapper of the frame is
\* dropped, the error goes to the caller.
SetupFail(errno) ==
    /\ pfds' = CloseSet(pfds, OursFds(ours) \cup OwnedFds(theirs)
                                \cup ({input, output} \ {NoFd}))
    /\ result' = Res("Err", errno)
    /\ pc' = "done"
    /\ UNCHANGED <<ours, theirs, input, output, nintr, nullMode>>

Routed(slot, th, o, tbl, nm) ==
    /\ theirs' = [theirs EXCEPT ![slot] = th]
    /\ ours' = [ours EXCEPT ![slot] = o]
    /\ pfds' = tbl
    /\ nullMode' = nm
    /\ pc' = AfterIo(slot)
    /\ UNCHANGED <<input, output, nintr, result>>

\* capture_env: None when the CommandEnv holds no change, else the captured
\* environment as an envp array.
CaptureEnv(e, base) ==
    IF IsUnchanged(e) THEN NoEnvp ELSE SomeEnvp(construct_envp(Capture(e, base)))

\* spawn up to setup_io: capture_env, and `if self.saw_nul() {}`, which does
\* nothing.
Spawn ==
    /\ pc = "builder"
    /\ envp' = CaptureEnv(env, environ)
    /\ saw_nul' = (saw_nul \/ (~IsUnchanged(env)
                                /\ EnvpSawNul(Capture(env, environ))))
    /\ pc' = "io_stdin"
    /\ UNCHANGED <<code, cwd, stdin, stdout, stderr, argv, env, environ, image,
                   cfds, ctlBuf, childVars, handleVars, ours, theirs, input,
                   output, nintr, result, pfds, nullMode>>
    /\ UNCHANGED ioVars
    /\ UNCHANGED readRet
    /\ UNCHANGED envRef
    /\ UNCHANGED program

\* Stdio::Fd that never duplicates the descriptor.
NeverStdFd(fd) == FALSE
\* Stdio::Fd: the descriptor is one of the standard three, and is duplicated.
IsStdFd(fd) == fd >= 0 /\ fd <= STDERR_FILENO

\* Stdio::MakePipe with the two ends the wrong way round.
PipeEndsInverted(readable, reader, writer) ==
    IF readable THEN [ours |-> reader, theirs |-> writer]
                ELSE [ours |-> writer, theirs |-> reader]
\* Stdio::MakePipe: (ours, theirs) of (reader, writer).
PipeEnds(readable, reader, writer) ==
    IF readable THEN [ours |-> writer, theirs |-> reader]
                ELSE [ours |-> reader, theirs |-> writer]

\* Stdio::to_child_stdio(readable), readable for stdin only.
ToChildStdio(slot) ==
    /\ pc = IoPc(slot)
    /\ LET c == EffCfg(slot)
           readable == (slot = 0)
           free == FreeFds(pfds)
       IN  CASE c.kind = "Inherit" ->
                  Routed(slot, CInherit, NoFd, pfds, nullMode)
             [] c.kind = "Fd" ->
                  IF IsStdFd(c.fd)
                  THEN IF free = {} THEN SetupFail(EMFILE)
                       ELSE LET n == LowestFree(pfds)
                            IN  Routed(slot, ChildStdio("Owned", n), NoFd,
                                       Install(pfds, n, pfds[c.fd].obj, TRUE),
                                       nullMode)
                  ELSE Routed(slot, ChildStdio("Explicit", c.fd), NoFd, pfds,
                              nullMode)
             [] c.kind = "MakePipe" ->
                  IF Cardinality(free) < 2 THEN SetupFail(EMFILE)
                  ELSE LET r == LowestFree(pfds)
                           t1 == Install(pfds, r, PipeObj(slot, "r"), TRUE)
                           w == LowestFree(t1)
                           t2 == Install(t1, w, PipeObj(slot, "w"), TRUE)
                           e == PipeEnds(readable, r, w)
                       IN  Routed(slot, ChildStdio("Owned", e.theirs), e.ours,
                                  t2, nullMode)
             [] OTHER ->
                  IF free = {} THEN SetupFail(EMFILE)
                  ELSE LET o == OpenNull(pfds, readable)
                       IN  Routed(slot, ChildStdio("Owned", o.fd), NoFd, o.tbl,
                                  [nullMode EXCEPT
                                     ![slot] = NullOpenMode(readable)])
    /\ UNCHANGED <<builderVars, cfds, ctlBuf, childVars, handleVars>>
    /\ UNCHANGED execVars
    /\ UNCHANGED ioVars
    /\ UNCHANGED readRet

\* anon_pipe() for the control pipe: pipe2(O_CLOEXEC).
CtlPipe ==
    /\ pc = "anon_pipe"
    /\ IF Cardinality(FreeFds(pfds)) < 2 THEN SetupFail(EMFILE)
       ELSE LET r == LowestFree(pfds)
                t1 == Install(pfds, r, PipeObj(CtlId, "r"), TRUE)
                w == LowestFree(t1)
            IN  /\ pfds' = Install(t1, w, PipeObj(CtlId, "w"), TRUE)
                /\ input' = r
                /\ output' = w
                /\ pc' = "fork"
                /\ UNCHANGED <<ours, theirs, nintr, result, nullMode>>
    /\ UNCHANGED <<builderVars, cfds, ctlBuf, childVars, handleVars>>
    /\ UNCHANGED execVars
    /\ UNCHANGED ioVars
    /\ UNCHANGED readRet

\* do_fork: the child starts with a copy of the parent's descriptor table
\* and of spawn's frame.
ForkOk(p) ==
    /\ pc = "fork"
    /\ pid' = p
    /\ proc' = "forked"
    /\ cpc' = "drop_input"
    /\ cfds' = pfds
    /\ pc' = "drop_output"
    /\ UNCHANGED <<builderVars, ctlBuf, cfail, cerr, mfd, exitStatus, status,
                   hpc, lastCall, ret, nops, waitpidCalls, signals, sigPending,
                   ours, theirs, input, output, nintr, result, pfds, nullMode>>
    /\ UNCHANGED execVars
    /\ UNCHANGED ioVars
    /\ UNCHANGED readRet
    /\ UNCHANGED cstate

ForkFail ==
    /\ pc = "fork"
    /\ SetupFail(EAGAIN)
    /\ UNCHANGED <<builderVars, cfds, ctlBuf, childVars, handleVars>>
    /\ UNCHANGED execVars
    /\ UNCHANGED ioVars
    /\ UNCHANGED readRet
\* ------------------------------------------------- the parent after fork
\* Some process still holds the control pipe's write end.
CtlWriters ==
    \E n \in Fds : \/ pfds[n].obj = PipeObj(CtlId, "w")
                   \/ cfds[n].obj = PipeObj(CtlId, "w")

\* A parent that goes on to the read with the write end still open.
DropOutputForgotten ==
    /\ pc = "drop_output"
    /\ pc' = "read"
    /\ UNCHANGED <<builderVars, execVars, ioVars, cfds, ctlBuf, childVars,
                   handleVars, ours, theirs, input, output, nintr, result,
                   nullMode, pfds, readRet>>
\* drop(output), then Process::new(pid).
DropOutput ==
    /\ pc = "drop_output"
    /\ pfds' = CloseSet(pfds, {output})
    /\ pc' = "read"
    /\ UNCHANGED <<builderVars, cfds, ctlBuf, childVars, handleVars, ours,
                   theirs, input, output, nintr, result, nullMode>>
    /\ UNCHANGED execVars
    /\ UNCHANGED ioVars
    /\ UNCHANGED readRet

\* The control-pipe wire format: 4 bytes big-endian errno, then b"NOEX".
CLOEXEC_MSG_FOOTER == <<78, 79, 69, 88>>
\* i32::to_be_bytes and i32::from_be_bytes (two's complement, computed
\* within 32-bit integers).
ToBeBytes(e) ==
    LET v == IF e < 0 THEN (e + 2147483647) + 1 ELSE e
        top == IF e < 0 THEN 128 ELSE 0
    IN  <<top + (v \div 16777216), (v \div 65536) % 256, (v \div 256) % 256,
          v % 256>>
\* i32::from_le_bytes
FromLeBytes(b) ==
    LET neg == b[4] >= 128
        v == (((b[4] % 128) * 256 + b[3]) * 256 + b[2]) * 256 + b[1]
    IN  IF neg THEN (v - 2147483647) - 1 ELSE v
FromBeBytes(b) ==
    LET neg == b[1] >= 128
        v == (((b[1] % 128) * 256 + b[2]) * 256 + b[3]) * 256 + b[4]
    IN  IF neg THEN (v - 2147483647) - 1 ELSE v
Min(a, b) == IF a <= b THEN a ELSE b
\* The record the Ok(8) arm is written for: errno, then the footer.
ErrnoRecord(e) == ToBeBytes(e) \o CLOEXEC_MSG_FOOTER
\* What a holder of the control pipe's write end may send: well-formed
\* records (of a positive and of a negative error number), a record followed
\* by one more byte, four bytes only, and eight bytes with another footer.
CtlMessages ==
    {ErrnoRecord(e) : e \in {ENOENT, EBADF, -ENOENT}}
        \cup {ErrnoRecord(ENOEXEC) \o <<0>>,
              ToBeBytes(ENOENT),
              ToBeBytes(ENOENT) \o <<78, 79, 69, 89>>}

\* spawn returns: the wrappers still in the frame are dropped.  `ours` was
\* moved into the Child on Ok and is dropped with the frame otherwise.
FrameDrop(keepOurs) ==
    CloseSet(pfds, ({input} \ {NoFd}) \cup OwnedFds(theirs)
                     \cup (IF keepOurs THEN {} ELSE OursFds(ours)))

\* A read loop that takes EINTR for a failure of the pipe and escalates.
ReadEINTRFails ==
    /\ pc = "read"
    /\ nintr < MaxIntr
    /\ nintr' = nintr + 1
    /\ readRet' = ReadRet("Err", <<>>, EINTR)
    /\ result' = Res("Panic", NoErrno)
    /\ pfds' = FrameDrop(FALSE)
    /\ hpc' = "dropped"
    /\ pc' = "done"
    /\ UNCHANGED <<builderVars, execVars, ioVars, cfds, ctlBuf, childVars, pid,
                   status, lastCall, ret, nops, waitpidCalls, signals,
                   sigPending, ours, theirs, input, output, nullMode>>
\* input.read(&mut bytes) fails with EINTR: the loop reads again.
ReadEINTR ==
    /\ pc = "read"
    /\ nintr < MaxIntr
    /\ nintr' = nintr + 1
    /\ readRet' = ReadRet("Err", <<>>, EINTR)
    /\ UNCHANGED <<builderVars, cfds, ctlBuf, childVars, handleVars, ours,
                   theirs, input, output, result, pfds, nullMode, pc>>
    /\ UNCHANGED execVars
    /\ UNCHANGED ioVars

\* The failed child, still holding the write end of the control pipe, sends
\* b.  (The child branch of spawn itself never writes; the arms of the
\* parent's match are written for a peer that does, and only the
\* specification of the control-pipe protocol has this step.)
CtlSend(b) ==
    /\ proc = "forked" /\ cpc = "panic"
    /\ output # NoFd /\ cfds[output].obj = PipeObj(CtlId, "w")
    /\ ctlBuf = <<>>
    /\ ctlBuf' = b
    /\ UNCHANGED <<builderVars, execVars, ioVars, cfds, childVars,
                   handleVars, spawnVars>>

\* A match arm that escalates or returns without waiting for the child.
SpawnNoWait == UNCHANGED <<proc, status, waitpidCalls>>
\* assert!(p.wait().is_ok(), ..) in spawn's match arms: Process::wait on the
\* new handle blocks until the child is a zombie, and reaps it.
SpawnWait ==
    /\ proc = "zombie"
    /\ proc' = "reaped"
    /\ status' = exitStatus
    /\ waitpidCalls' = waitpidCalls + 1

\* input.read(&mut bytes) returns n bytes (0 at EOF), and spawn's match on it:
\* Ok(0) returns the Child; Ok(8) checks the footer, decodes the errno, waits
\* and returns Err; every other count waits and panics.
ReadCtl ==
    /\ pc = "read"
    /\ Len(ctlBuf) > 0 \/ ~CtlWriters
    /\ LET n == Min(8, Len(ctlBuf))
           bytes == SubSeq(ctlBuf, 1, n)
       IN  /\ readRet' = ReadRet("Ok", bytes, NoErrno)
           /\ ctlBuf' = SubSeq(ctlBuf, n + 1, Len(ctlBuf))
           /\ CASE n = 0 ->
                    /\ result' = Res("Ok", NoErrno)
                    /\ pfds' = FrameDrop(TRUE)
                    /\ hpc' = "idle"
                    /\ UNCHANGED <<proc, status, waitpidCalls>>
                [] n = 8 /\ SubSeq(bytes, 5, 8) # CLOEXEC_MSG_FOOTER ->
                    \* assert_eq!(CLOEXEC_MSG_FOOTER, footer) fails before
                    \* the wait
                    /\ result' = Res("Panic", NoErrno)
                    /\ pfds' = FrameDrop(FALSE)
                    /\ hpc' = "dropped"
                    /\ UNCHANGED <<proc, status, waitpidCalls>>
                [] n = 8 /\ SubSeq(bytes, 5, 8) = CLOEXEC_MSG_FOOTER ->
                    /\ SpawnWait
                    /\ result' = Res("Err", FromBeBytes(SubSeq(bytes, 1, 4)))
                    /\ pfds' = FrameDrop(FALSE)
                    /\ hpc' = "dropped"
                [] OTHER ->
                    /\ SpawnWait
                    /\ result' = Res("Panic", NoErrno)
                    /\ pfds' = FrameDrop(FALSE)
                    /\ hpc' = "dropped"
    /\ pc' = "done"
    /\ UNCHANGED <<builderVars, cfds, cpc, cfail, cerr, mfd, exitStatus, pid,
                   lastCall, ret, nops, signals, sigPending, ours, theirs,
                   input, output, nintr, nullMode>>
    /\ UNCHANGED execVars
    /\ UNCHANGED ioVars
    /\ UNCHANGED cstate

\* input.read(&mut bytes) fails with an error e other than EINTR: spawn waits
\* for the child and panics.
ReadFail(e) ==
    /\ pc = "read"
    /\ e # EINTR
    /\ readRet' = ReadRet("Err", <<>>, e)
    /\ SpawnWait
    /\ result' = Res("Panic", NoErrno)
    /\ pfds' = FrameDrop(FALSE)
    /\ hpc' = "dropped"
    /\ pc' = "done"
    /\ UNCHANGED <<builderVars, cfds, ctlBuf, cpc, cfail, cerr, mfd, exitStatus,
                   pid, lastCall, ret, nops, signals, sigPending, ours, theirs,
                   input, output, nintr, nullMode>>
    /\ UNCHANGED execVars
    /\ UNCHANGED ioVars
    /\ UNCHANGED cstate

\* ------------------------------------------------------------- the child
\* The processes that run do_exec: the child spawn forked, or the caller of
\* exec itself.
DoExecProcs == {"forked", "exec"}
\* ChildStdio::fd()
FdOf(cs) == IF cs.tag = "Inherit" THEN NoFd ELSE cs.fd

Dup2Pc(slot) == CASE slot = 0 -> "dup2_stdin" [] slot = 1 -> "dup2_stdout"
                  [] OTHER -> "dup2_stderr"
AfterDup2(slot) == CASE slot = 0 -> "dup2_stdout" [] slot = 1 -> "dup2_stderr"
                     [] OTHER -> "chdir"

\* do_exec leaves by `?`, by `return Err(..)` or by a panic that unwinds
\* through it: its parameter `stdio` (the child's copy of `theirs`) is
\* dropped.  `step` failed with OS error `errno`; `err` is the io::Error
\* do_exec hands to spawn.  Control is then at spawn's panic!().
DoExecFails(step, errno, err, tbl) ==
    /\ cfail' = Res(step, errno)
    /\ cerr' = err
    /\ cfds' = CloseSet(tbl, OwnedFds(theirs))
    /\ cpc' = "panic"
    /\ UNCHANGED <<proc, exitStatus>>

\* spawn, child branch: drop(input).
ChildDropInput ==
    /\ proc = "forked" /\ cpc = "drop_input"
    /\ cfds' = CloseSet(cfds, {input})
    /\ cpc' = "dup2_stdin"
    /\ UNCHANGED <<builderVars, ctlBuf, proc, cfail, cerr, mfd, exitStatus,
                   handleVars, spawnVars>>
    /\ UNCHANGED execVars
    /\ UNCHANGED ioVars
    /\ UNCHANGED cstate

\* do_exec: cvt_r(dup2(fd, slot)) for a routed stream.
ChildDup2(slot) ==
    /\ proc \in DoExecProcs /\ cpc = Dup2Pc(slot)
    /\ LET fd == FdOf(theirs[slot])
       IN  IF fd = NoFd
           THEN /\ cpc' = AfterDup2(slot)
                /\ UNCHANGED <<cfds, proc, cfail, cerr, exitStatus>>
           ELSE IF IsOpen(cfds, fd)
           THEN /\ cfds' = Dup2(cfds, fd, slot)
                /\ cpc' = AfterDup2(slot)
                /\ UNCHANGED <<proc, cfail, cerr, exitStatus>>
           ELSE DoExecFails("dup2", EBADF, Res("Os", EBADF), cfds)
    /\ UNCHANGED <<builderVars, ctlBuf, mfd, handleVars, spawnVars>>
    /\ UNCHANGED execVars
    /\ UNCHANGED ioVars
    /\ UNCHANGED cstate

\* The directories of the file system.
DirExists(d) == d = "good"

\* cvt(chdir(cwd)) whose error is not propagated.
ChildChdirUnchecked ==
    /\ proc \in DoExecProcs /\ cpc = "chdir"
    /\ cpc' = "sigreset"
    /\ cstate' = IF cwd # "None" /\ DirExists(cwd)
                 THEN [cstate EXCEPT !.cwd = cwd] ELSE cstate
    /\ UNCHANGED <<cfds, proc, cfail, cerr, exitStatus>>
    /\ UNCHANGED <<builderVars, ctlBuf, mfd, handleVars, spawnVars>>
    /\ UNCHANGED execVars
    /\ UNCHANGED ioVars
\* do_exec: cvt(chdir(cwd))? when a working directory is set.
ChildChdir ==
    /\ proc \in DoExecProcs /\ cpc = "chdir"
    /\ IF cwd # "None" /\ ~DirExists(cwd)
       THEN /\ DoExecFails("chdir", ENOENT, Res("Os", ENOENT), cfds)
            /\ UNCHANGED cstate
       ELSE /\ cpc' = "sigreset"
            /\ cstate' = IF cwd = "None" THEN cstate
                         ELSE [cstate EXCEPT !.cwd = cwd]
            /\ UNCHANGED <<cfds, proc, cfail, cerr, exitStatus>>
    /\ UNCHANGED <<builderVars, ctlBuf, mfd, handleVars, spawnVars>>
    /\ UNCHANGED execVars
    /\ UNCHANGED ioVars

\* do_exec: the signal mask is set to the empty set and SIGPIPE goes back to
\* its default disposition (sigemptyset on a valid set, pthread_sigmask with
\* SIG_SETMASK and signal(SIGPIPE, SIG_DFL) have no failure for these
\* arguments, so the three `?`/return Err paths are never taken).
ChildSigReset ==
    /\ proc \in DoExecProcs /\ cpc = "sigreset"
    /\ cstate' = SigReset(cstate)
    /\ cpc' = "memfd_create"
    /\ UNCHANGED <<cfds, proc, cfail, cerr, exitStatus>>
    /\ UNCHANGED <<builderVars, ctlBuf, mfd, handleVars, spawnVars>>
    /\ UNCHANGED execVars
    /\ UNCHANGED ioVars

\* do_exec: memfd_create(..).unwrap(): a failure panics inside do_exec.
ChildMemfd(oom) ==
    /\ proc \in DoExecProcs /\ cpc = "memfd_create"
    /\ IF oom
       THEN /\ DoExecFails("memfd_create", ENOMEM, Res("Unwrap", ENOMEM), cfds)
            /\ UNCHANGED <<mfd, cstate>>
       ELSE IF FreeFds(cfds) = {}
       THEN /\ DoExecFails("memfd_create", EMFILE, Res("Unwrap", EMFILE), cfds)
            /\ UNCHANGED <<mfd, cstate>>
       ELSE /\ mfd' = LowestFree(cfds)
            /\ cfds' = Install(cfds, LowestFree(cfds), MemfdObj, TRUE)
            /\ cstate' = [cstate EXCEPT !.memfd = "empty"]
            /\ cpc' = "write"
            /\ UNCHANGED <<proc, cfail, cerr, exitStatus>>
    /\ UNCHANGED <<builderVars, ctlBuf, handleVars, spawnVars>>
    /\ UNCHANGED execVars
    /\ UNCHANGED ioVars

\* A short write that is taken for a complete one.
ChildWriteUnchecked(how) ==
    /\ proc \in DoExecProcs /\ cpc = "write"
    /\ CASE how = "full" ->
              /\ cstate' = [cstate EXCEPT !.memfd = "full"]
              /\ cpc' = "fexecve"
              /\ UNCHANGED <<cfds, proc, cfail, cerr, exitStatus>>
         [] how = "short" ->
              /\ cstate' = [cstate EXCEPT !.memfd = "partial"]
              /\ cpc' = "fexecve"
              /\ UNCHANGED <<cfds, proc, cfail, cerr, exitStatus>>
         [] OTHER ->
              /\ DoExecFails("write", ENOSPC, Res("Os", ENOSPC), cfds)
              /\ UNCHANGED cstate
    /\ UNCHANGED <<builderVars, ctlBuf, mfd, handleVars, spawnVars>>
    /\ UNCHANGED execVars
    /\ UNCHANGED ioVars
\* do_exec: write(mfd, code): Ok(n) with n = code.len() goes on; a short
\* write (n # code.len()) is Err(BrokenPipe, "Failed to write to memfd") with
\* no OS error; a failed one is last_os_error().  The memfd is a raw number
\* here and stays open on both.
ChildWrite(how) ==
    /\ proc \in DoExecProcs /\ cpc = "write"
    /\ CASE how = "full" ->
              /\ cstate' = [cstate EXCEPT !.memfd = "full"]
              /\ cpc' = "fexecve"
              /\ UNCHANGED <<cfds, proc, cfail, cerr, exitStatus>>
         [] how = "short" ->
              /\ cstate' = [cstate EXCEPT !.memfd = "partial"]
              /\ DoExecFails("write", NoErrno, Res("Custom", NoErrno), cfds)
         [] OTHER ->
              /\ DoExecFails("write", ENOSPC, Res("Os", ENOSPC), cfds)
              /\ UNCHANGED cstate
    /\ UNCHANGED <<builderVars, ctlBuf, mfd, handleVars, spawnVars>>
    /\ UNCHANGED execVars
    /\ UNCHANGED ioVars

\* do_exec: maybe_envp.unwrap_or_default(): no captured environment is an
\* empty envp array.
UnwrapOrDefault(e) == IF e.some THEN e.list ELSE <<>>

\* do_exec: fexecve(mfd, argv, envp).  On success the new image runs with
\* the close-on-exec descriptors closed.  On failure the memfd is closed and
\* the nix errno is wrapped as Error::new(BrokenPipe, err): a custom error,
\* whose raw_os_error() is None.
ChildExec ==
    /\ proc \in DoExecProcs /\ cpc = "fexecve"
    /\ IF code = "elf"
       THEN /\ cfds' = CloseOnExec(cfds)
            /\ proc' = "image"
            /\ cpc' = "execd"
            /\ image' = [argv |-> argv, envp |-> UnwrapOrDefault(envp)]
            /\ UNCHANGED <<cfail, cerr, exitStatus>>
       ELSE /\ DoExecFails("fexecve", ENOEXEC, Res("Custom", NoErrno),
                           CloseSet(cfds, {mfd}))
            /\ UNCHANGED image
    /\ UNCHANGED <<builderVars, envp, ctlBuf, mfd, handleVars, spawnVars>>
    /\ UNCHANGED ioVars
    /\ UNCHANGED cstate

\* spawn, child branch: panic!("failed to exec: {}", err) (or the unwrap's
\* panic arriving from do_exec).  Nothing is written to the control pipe.
\* With panic=unwind the child's copy of spawn's frame is dropped (output
\* and `ours`; input and `theirs` are gone already) and the unwinding goes on
\* into spawn's caller, in the child process.
ChildPanicUnwind ==
    /\ proc = "forked" /\ cpc = "panic"
    /\ cfds' = CloseSet(cfds, {output} \cup OursFds(ours))
    /\ proc' = "caller"
    /\ cpc' = "in_caller"
    /\ UNCHANGED <<builderVars, ctlBuf, cfail, cerr, mfd, exitStatus,
                   handleVars, spawnVars>>
    /\ UNCHANGED execVars
    /\ UNCHANGED ioVars
    /\ UNCHANGED cstate

\* With panic=abort the child process is killed by SIGABRT at the panic.
ChildPanicAbort ==
    /\ proc = "forked" /\ cpc = "panic"
    /\ cfds' = AllClosed
    /\ proc' = "zombie"
    /\ exitStatus' = 134
    /\ cpc' = "aborted"
    /\ UNCHANGED <<builderVars, ctlBuf, cfail, cerr, mfd, handleVars,
                   spawnVars>>
    /\ UNCHANGED execVars
    /\ UNCHANGED ioVars
    /\ UNCHANGED cstate

\* The child that unwound into the caller's code ends: the panic reaches the
\* top of its thread (exit status 101).
ChildCallerExit ==
    /\ proc = "caller"
    /\ cfds' = AllClosed
    /\ proc' = "zombie"
    /\ exitStatus' = 25856
    /\ UNCHANGED <<builderVars, ctlBuf, cpc, cfail, cerr, mfd, handleVars,
                   spawnVars>>
    /\ UNCHANGED execVars
    /\ UNCHANGED ioVars
    /\ UNCHANGED cstate

\* The new program image exits.
ImageExit(st) ==
    /\ proc = "image"
    /\ cfds' = AllClosed
    /\ proc' = "zombie"
    /\ exitStatus' = st
    /\ UNCHANGED <<builderVars, ctlBuf, cpc, cfail, cerr, mfd, handleVars,
                   spawnVars>>
    /\ UNCHANGED execVars
    /\ UNCHANGED ioVars
    /\ UNCHANGED cstate

\* ------------------------------------------------------------------ exec
\* An exec that goes on to setup_io whatever saw_nul is.
ExecIgnoresNul ==
    /\ pc = "builder"
    /\ lastCall' = "exec"
    /\ envp' = CaptureEnv(env, environ)
    /\ saw_nul' = (saw_nul \/ (~IsUnchanged(env)
                                /\ EnvpSawNul(Capture(env, environ))))
    /\ pc' = "io_stdin"
    /\ UNCHANGED <<code, cwd, stdin, stdout, stderr, argv, env, environ, envRef,
                   program, image, cfds, ctlBuf, childVars, pid, status, hpc,
                   ret, nops, waitpidCalls, signals, sigPending, ours, theirs,
                   input, output, nintr, result, pfds, nullMode, readRet>>
    /\ UNCHANGED ioVars
\* MemFdExecutable::exec(Stdio::Inherit) up to setup_io: capture_env (which
\* sets saw_nul for an environment entry with a NUL), then
\* `if self.saw_nul() { return Error::new(ErrorKind::InvalidInput, ..) }`.
Exec ==
    /\ pc = "builder"
    /\ lastCall' = "exec"
    /\ envp' = CaptureEnv(env, environ)
    /\ saw_nul' = (saw_nul \/ (~IsUnchanged(env)
                                /\ EnvpSawNul(Capture(env, environ))))
    /\ IF saw_nul'
       THEN /\ result' = Res("InvalidInput", NoErrno)
            /\ pc' = "done"
       ELSE /\ pc' = "io_stdin"
            /\ UNCHANGED result
    /\ UNCHANGED <<code, cwd, stdin, stdout, stderr, argv, env, environ, envRef,
                   program, image, cfds, ctlBuf, childVars, pid, status, hpc,
                   ret, nops, waitpidCalls, signals, sigPending, ours, theirs,
                   input, output, nintr, pfds, nullMode, readRet>>
    /\ UNCHANGED ioVars

\* exec: setup_io returned Ok((_, theirs)) and do_exec(theirs, envp) is
\* called in the calling process itself: from here the process that runs
\* do_exec is the caller, and the table do_exec works on is its own.
ExecDoExec ==
    /\ pc = "anon_pipe" /\ lastCall = "exec"
    /\ pc' = "do_exec"
    /\ proc' = "exec"
    /\ cpc' = "dup2_stdin"
    /\ cfds' = pfds
    /\ UNCHANGED <<builderVars, ctlBuf, cfail, cerr, mfd, exitStatus, cstate,
                   handleVars, ours, theirs, input, output, nintr, result, pfds,
                   nullMode, readRet>>
    /\ UNCHANGED execVars
    /\ UNCHANGED ioVars

\* exec: do_exec returned Err(e), which exec returns; `theirs` was dropped
\* by do_exec, the parent's pipe ends (the `_` of the match) are dropped
\* at the end of the match.
ExecReturn ==
    /\ pc = "do_exec" /\ proc = "exec" /\ cpc = "panic"
    /\ cerr.tag # "Unwrap"
    /\ result' = cerr
    /\ pfds' = CloseSet(cfds, OursFds(ours))
    /\ cfds' = AllClosed
    /\ proc' = "none"
    /\ cpc' = "returned"
    /\ pc' = "done"
    /\ UNCHANGED <<builderVars, ctlBuf, cfail, cerr, mfd, exitStatus, cstate,
                   handleVars, ours, theirs, input, output, nintr, nullMode,
                   readRet>>
    /\ UNCHANGED execVars
    /\ UNCHANGED ioVars

\* ------------------------------------------------------ Process / Child
Running == {"forked", "image", "caller"}

\* Process::wait without its `if let Some(status) = self.status` shortcut.
ProcessWaitNoCache ==
    /\ hpc' = "in_waitpid"
    /\ waitpidCalls' = waitpidCalls + 1
    /\ ret' = Ret("blocked", NoStatus)

\* Process::wait: the cached status, or waitpid(pid, &status, 0) under
\* cvt_r; the call blocks until the child is a zombie.
ProcessWait ==
    IF status # NoStatus
    THEN /\ ret' = Ret("Ok", status)
         /\ UNCHANGED <<hpc, waitpidCalls>>
    ELSE /\ hpc' = "in_waitpid"
         /\ waitpidCalls' = waitpidCalls + 1
         /\ ret' = Ret("blocked", NoStatus)

\* A wait that leaves the Child's stdin handle open.
KeepStdin(tbl, o) == tbl
\* drop(self.stdin.take()): the Child's stdin handle, if it still holds one,
\* is closed.
DropStdin(tbl, o) == CloseSet(tbl, {o[0]} \ {NoFd})

\* Child::wait: drop(self.stdin.take()), then Process::wait.  The Child
\* exists once spawn has returned Ok.
Wait ==
    /\ pc = "done" /\ result.tag = "Ok"
    /\ hpc = "idle" /\ nops < MaxOps
    /\ nops' = nops + 1
    /\ lastCall' = "wait"
    /\ pfds' = DropStdin(pfds, ours)
    /\ ours' = [ours EXCEPT ![0] = NoFd]
    /\ ProcessWait
    /\ UNCHANGED <<builderVars, cfds, ctlBuf, childVars, pid, status, signals,
                   sigPending, pc, theirs, input, output, nintr, result,
                   nullMode>>
    /\ UNCHANGED execVars
    /\ UNCHANGED ioVars
    /\ UNCHANGED readRet

\* The blocked waitpid returns the pid: the child is reaped, the status is
\* cached and returned.
WaitpidReturn ==
    /\ hpc = "in_waitpid" /\ proc = "zombie"
    /\ proc' = "reaped"
    /\ status' = exitStatus
    /\ ret' = Ret("Ok", exitStatus)
    /\ hpc' = "idle"
    /\ UNCHANGED <<builderVars, cfds, ctlBuf, cpc, cfail, cerr, mfd,
                   exitStatus, pid, lastCall, nops, waitpidCalls, signals,
                   sigPending, spawnVars>>
    /\ UNCHANGED execVars
    /\ UNCHANGED ioVars
    /\ UNCHANGED cstate

\* A wait under cvt instead of cvt_r: the EINTR goes to the caller.
WaitpidEINTRReturned ==
    /\ hpc = "in_waitpid" /\ nintr < MaxIntr
    /\ nintr' = nintr + 1
    /\ ret' = Ret("Err", EINTR)
    /\ hpc' = "idle"
    /\ UNCHANGED <<builderVars, execVars, ioVars, cfds, ctlBuf, childVars, pid,
                   status, lastCall, nops, waitpidCalls, signals, sigPending,
                   pc, ours, theirs, input, output, result, pfds, nullMode,
                   readRet>>
\* The blocked waitpid fails with EINTR: cvt_r calls it again.
WaitpidEINTR ==
    /\ hpc = "in_waitpid" /\ nintr < MaxIntr
    /\ nintr' = nintr + 1
    /\ waitpidCalls' = waitpidCalls + 1
    /\ UNCHANGED <<builderVars, cfds, ctlBuf, childVars, pid, status, hpc,
                   lastCall, ret, nops, signals, sigPending, pc, ours, theirs,
                   input, output, result, pfds, nullMode>>
    /\ UNCHANGED execVars
    /\ UNCHANGED ioVars
    /\ UNCHANGED readRet

\* Process::try_wait that caches the status word also when waitpid returned 0.
TryWaitCachesEarly ==
    /\ hpc = "idle" /\ nops < MaxOps
    /\ nops' = nops + 1
    /\ lastCall' = "try_wait"
    /\ IF status # NoStatus
       THEN /\ ret' = Ret("Some", status)
            /\ UNCHANGED <<status, proc, waitpidCalls>>
       ELSE /\ waitpidCalls' = waitpidCalls + 1
            /\ IF proc = "zombie"
               THEN /\ status' = exitStatus
                    /\ proc' = "reaped"
                    /\ ret' = Ret("Some", exitStatus)
               ELSE /\ ret' = Ret("Some", 0)
                    /\ status' = 0
                    /\ UNCHANGED proc
    /\ UNCHANGED <<builderVars, cfds, ctlBuf, cpc, cfail, cerr, mfd,
                   exitStatus, pid, hpc, signals, sigPending, spawnVars>>
    /\ UNCHANGED execVars
    /\ UNCHANGED ioVars
    /\ UNCHANGED cstate

\* Process::try_wait (Child::try_wait forwards to it): the cached status, or
\* waitpid(pid, &status, WNOHANG), which returns 0 while the child runs.
TryWait ==
    /\ hpc = "idle" /\ nops < MaxOps
    /\ nops' = nops + 1
    /\ lastCall' = "try_wait"
    /\ IF status # NoStatus
       THEN /\ ret' = Ret("Some", status)
            /\ UNCHANGED <<status, proc, waitpidCalls>>
       ELSE /\ waitpidCalls' = waitpidCalls + 1
            /\ IF proc = "zombie"
               THEN /\ status' = exitStatus
                    /\ proc' = "reaped"
                    /\ ret' = Ret("Some", exitStatus)
               ELSE /\ ret' = Ret("None", NoStatus)
                    /\ UNCHANGED <<status, proc>>
    /\ UNCHANGED <<builderVars, cfds, ctlBuf, cpc, cfail, cerr, mfd,
                   exitStatus, pid, hpc, signals, sigPending, spawnVars>>
    /\ UNCHANGED execVars
    /\ UNCHANGED ioVars
    /\ UNCHANGED cstate

\* Process::kill without its `self.status.is_some()` check.
KillUnchecked ==
    /\ hpc = "idle" /\ nops < MaxOps
    /\ nops' = nops + 1
    /\ lastCall' = "kill"
    /\ signals' = Append(signals, [pid |-> pid, sig |-> "SIGKILL"])
    /\ sigPending' = (proc \in Running)
    /\ ret' = Ret("Ok", NoStatus)
    /\ UNCHANGED <<builderVars, cfds, ctlBuf, childVars, pid, status, hpc,
                   waitpidCalls, spawnVars>>
    /\ UNCHANGED execVars
    /\ UNCHANGED ioVars

\* Process::kill (Child::kill forwards to it): an InvalidInput error once a
\* status is cached, else kill(pid, SIGKILL).
Kill ==
    /\ hpc = "idle" /\ nops < MaxOps
    /\ nops' = nops + 1
    /\ lastCall' = "kill"
    /\ IF status # NoStatus
       THEN /\ ret' = Ret("InvalidInput", NoStatus)
            /\ UNCHANGED <<signals, sigPending>>
       ELSE /\ signals' = Append(signals, [pid |-> pid, sig |-> "SIGKILL"])
            /\ sigPending' = (proc \in Running)
            /\ ret' = Ret("Ok", NoStatus)
    /\ UNCHANGED <<builderVars, cfds, ctlBuf, childVars, pid, status, hpc,
                   waitpidCalls, spawnVars>>
    /\ UNCHANGED execVars
    /\ UNCHANGED ioVars

\* The kernel delivers the pending SIGKILL: the child becomes a zombie.
DeliverSignal ==
    /\ sigPending /\ proc \in Running
    /\ proc' = "zombie"
    /\ exitStatus' = KilledStatus
    /\ cfds' = AllClosed
    /\ sigPending' = FALSE
    /\ UNCHANGED <<builderVars, ctlBuf, cpc, cfail, cerr, mfd, pid, status,
                   hpc, lastCall, ret, nops, waitpidCalls, signals, spawnVars>>
    /\ UNCHANGED execVars
    /\ UNCHANGED ioVars
    /\ UNCHANGED cstate

\* The caller asks the ExitStatus a wait or try_wait returned (the one the
\* handle caches) for its exit code.
Code ==
    /\ hpc = "idle" /\ nops < MaxOps
    /\ status # NoStatus
    /\ nops' = nops + 1
    /\ lastCall' = "code"
    /\ ret' = ExitStatusCode(status)
    /\ UNCHANGED <<builderVars, cfds, ctlBuf, childVars, pid, status, hpc,
                   waitpidCalls, signals, sigPending, spawnVars>>
    /\ UNCHANGED execVars
    /\ UNCHANGED ioVars

\* The caller asks it for the terminating signal.
Signal ==
    /\ hpc = "idle" /\ nops < MaxOps
    /\ status # NoStatus
    /\ nops' = nops + 1
    /\ lastCall' = "signal"
    /\ ret' = ExitStatusSignal(status)
    /\ UNCHANGED <<builderVars, cfds, ctlBuf, childVars, pid, status, hpc,
                   waitpidCalls, signals, sigPending, spawnVars>>
    /\ UNCHANGED execVars
    /\ UNCHANGED ioVars

\* The caller asks the ExitStatus whether the child dumped core.
CoreDumped ==
    /\ hpc = "idle" /\ nops < MaxOps
    /\ status # NoStatus
    /\ nops' = nops + 1
    /\ lastCall' = "core_dumped"
    /\ ret' = BoolRet(core_dumped(status))
    /\ UNCHANGED <<builderVars, cfds, ctlBuf, childVars, pid, status, hpc,
                   waitpidCalls, signals, sigPending, spawnVars>>
    /\ UNCHANGED execVars
    /\ UNCHANGED ioVars

\* The caller asks it for the stop signal.
StoppedSignal ==
    /\ hpc = "idle" /\ nops < MaxOps
    /\ status # NoStatus
    /\ nops' = nops + 1
    /\ lastCall' = "stopped_signal"
    /\ ret' = stopped_signal(status)
    /\ UNCHANGED <<builderVars, cfds, ctlBuf, childVars, pid, status, hpc,
                   waitpidCalls, signals, sigPending, spawnVars>>
    /\ UNCHANGED execVars
    /\ UNCHANGED ioVars

\* The caller asks it whether the child was continued.
Continued ==
    /\ hpc = "idle" /\ nops < MaxOps
    /\ status # NoStatus
    /\ nops' = nops + 1
    /\ lastCall' = "continued"
    /\ ret' = BoolRet(continued(status))
    /\ UNCHANGED <<builderVars, cfds, ctlBuf, childVars, pid, status, hpc,
                   waitpidCalls, signals, sigPending, spawnVars>>
    /\ UNCHANGED execVars
    /\ UNCHANGED ioVars

\* The caller calls exit_ok().
ExitOk ==
    /\ hpc = "idle" /\ nops < MaxOps
    /\ status # NoStatus
    /\ nops' = nops + 1
    /\ lastCall' = "exit_ok"
    /\ ret' = exit_ok(status)
    /\ UNCHANGED <<builderVars, cfds, ctlBuf, childVars, pid, status, hpc,
                   waitpidCalls, signals, sigPending, spawnVars>>
    /\ UNCHANGED execVars
    /\ UNCHANGED ioVars

\* The caller takes the raw value back.
IntoRaw ==
    /\ hpc = "idle" /\ nops < MaxOps
    /\ status # NoStatus
    /\ nops' = nops + 1
    /\ lastCall' = "into_raw"
    /\ ret' = Ret("Ok", into_raw(status))
    /\ UNCHANGED <<builderVars, cfds, ctlBuf, childVars, pid, status, hpc,
                   waitpidCalls, signals, sigPending, spawnVars>>
    /\ UNCHANGED execVars
    /\ UNCHANGED ioVars

\* ExitStatus::new(raw), ExitStatus::from(raw): the caller wraps a raw wait
\* status; the ExitStatus it holds is kept where the handle keeps the one
\* it returned.
ExitStatusNew(raw) ==
    /\ hpc = "idle" /\ status = NoStatus /\ lastCall = "none"
    /\ status' = raw
    /\ lastCall' = "new"
    /\ UNCHANGED <<builderVars, cfds, ctlBuf, childVars, pid, hpc, ret, nops,
                   waitpidCalls, signals, sigPending, spawnVars>>
    /\ UNCHANGED execVars
    /\ UNCHANGED ioVars

\* ------------------------------------------------ the image's streams
\* Some process holds a write end of the stdio pipe of slot s.
Writers(s) ==
    \E n \in Fds : \/ pfds[n].obj = PipeObj(s, "w")
                   \/ cfds[n].obj = PipeObj(s, "w")

\* The image writes the next byte to its stdout (s = 1) or stderr (s = 2); a
\* write to a full pipe blocks.
ImgWrite(s) ==
    /\ proc = "image"
    /\ prog.out[s] # <<>>
    /\ IF cfds[s].obj = PipeObj(s, "w")
       THEN /\ Len(pipes[s]) < PipeCap
            /\ pipes' = [pipes EXCEPT ![s] = Append(@, Head(prog.out[s]))]
       ELSE UNCHANGED pipes
    /\ wrote' = [wrote EXCEPT ![s] = Append(@, Head(prog.out[s]))]
    /\ prog' = [prog EXCEPT !.out[s] = Tail(@)]
    /\ UNCHANGED <<stdinLeft, taken, vecs, revents, nonblock, outputRet,
                   builderVars, execVars, cfds, ctlBuf, childVars, handleVars,
                   spawnVars>>

\* cat reads a byte from its stdin, which it will write to its stdout.
ImgRead ==
    /\ proc = "image" /\ prog.kind = "cat"
    /\ prog.out[1] = <<>>
    /\ cfds[0].obj = PipeObj(0, "r") /\ pipes[0] # <<>>
    /\ prog' = [prog EXCEPT !.out[1] = <<Head(pipes[0])>>]
    /\ pipes' = [pipes EXCEPT ![0] = Tail(@)]
    /\ UNCHANGED <<wrote, stdinLeft, taken, vecs, revents, nonblock, outputRet,
                   builderVars, execVars, cfds, ctlBuf, childVars, handleVars,
                   spawnVars>>

\* A read of the image's stdin returns 0: it is a pipe that is empty and has
\* no write end left (or it is no pipe, and the terminal is at end of file).
StdinEof == cfds[0].obj = PipeObj(0, "r") => (pipes[0] = <<>> /\ ~Writers(0))

\* The image has written everything (cat: after end of file on its stdin)
\* and exits with status 0; the kernel closes its descriptors.
ImgFinish ==
    /\ proc = "image" /\ prog.kind # "silent"
    /\ prog.out[1] = <<>> /\ prog.out[2] = <<>>
    /\ prog.kind = "cat" => StdinEof
    /\ proc' = "zombie"
    /\ exitStatus' = 0
    /\ cfds' = AllClosed
    /\ UNCHANGED <<ioVars, builderVars, execVars, ctlBuf, cpc, cfail, cerr,
                   mfd, handleVars, spawnVars, cstate>>

\* ------------------------------------------------- the caller and stdin
\* child.stdin.take(): the ChildStdin goes to the caller (a writer thread).
TakeStdin ==
    /\ pc = "done" /\ result.tag = "Ok" /\ hpc = "idle"
    /\ ours[0] # NoFd /\ taken = NoFd
    /\ taken' = ours[0]
    /\ ours' = [ours EXCEPT ![0] = NoFd]
    /\ UNCHANGED <<pipes, prog, wrote, stdinLeft, vecs, revents, nonblock,
                   outputRet, builderVars, execVars, cfds, ctlBuf, childVars,
                   handleVars, pc, theirs, input, output, nintr, result, pfds,
                   nullMode>>
    /\ UNCHANGED readRet

\* ChildStdin::write: the next byte goes into the stdin pipe, through the
\* handle the thread took or, between two calls on the Child, through
\* child.stdin; a write to a full pipe blocks.
StdinWrite ==
    /\ pc = "done" /\ result.tag = "Ok"
    /\ stdinLeft # <<>>
    /\ LET h == IF taken # NoFd THEN taken ELSE ours[0]
       IN  /\ h # NoFd
           /\ pfds[h].obj = PipeObj(0, "w")
    /\ taken = NoFd => hpc = "idle"
    /\ Len(pipes[0]) < PipeCap
    /\ pipes' = [pipes EXCEPT ![0] = Append(@, Head(stdinLeft))]
    /\ wrote' = [wrote EXCEPT ![0] = Append(@, Head(stdinLeft))]
    /\ stdinLeft' = Tail(stdinLeft)
    /\ UNCHANGED <<prog, taken, vecs, revents, nonblock, outputRet, builderVars,
                   execVars, cfds, ctlBuf, childVars, handleVars, spawnVars>>

\* The writer thread has written everything and drops the ChildStdin.
StdinClose ==
    /\ taken # NoFd /\ stdinLeft = <<>>
    /\ pfds' = CloseSet(pfds, {taken})
    /\ taken' = NoFd
    /\ UNCHANGED <<pipes, prog, wrote, stdinLeft, vecs, revents, nonblock,
                   outputRet, builderVars, execVars, cfds, ctlBuf, childVars,
                   handleVars, pc, ours, theirs, input, output, nintr, result,
                   nullMode>>
    /\ UNCHANGED readRet

\* ---------------------------------------------- Child::wait_with_output
\* self.wait() at the end of wait_with_output: Process::wait, and the Output
\* built from its status and the two Vecs v.
OutputWait(v) ==
    IF status # NoStatus
    THEN /\ outputRet' = Output(status, v[1], v[2])
         /\ ret' = Ret("Ok", status)
         /\ hpc' = "consumed"
         /\ UNCHANGED waitpidCalls
    ELSE /\ hpc' = "out_waitpid"
         /\ waitpidCalls' = waitpidCalls + 1
         /\ ret' = Ret("blocked", NoStatus)
         /\ UNCHANGED outputRet

\* The output handles the Child holds.
Held(s) == ours[s] # NoFd

\* A wait_with_output that reads stdout to its end and leaves stderr unread.
WaitWithOutputOneByOne ==
    /\ pc = "done" /\ result.tag = "Ok"
    /\ hpc = "idle" /\ nops < MaxOps
    /\ nops' = nops + 1
    /\ lastCall' = "wait_with_output"
    /\ pfds' = DropStdin(pfds, ours)
    /\ ours' = [ours EXCEPT ![0] = NoFd]
    /\ vecs' = (1 :> <<>> @@ 2 :> <<>>)
    /\ CASE Held(1) /\ Held(2) ->
              /\ hpc' = "read_to_end_1"
              /\ ret' = Ret("blocked", NoStatus)
              /\ UNCHANGED <<nonblock, waitpidCalls, outputRet>>
         [] Held(1) /\ ~Held(2) ->
              /\ hpc' = "read_to_end_1"
              /\ ret' = Ret("blocked", NoStatus)
              /\ UNCHANGED <<nonblock, waitpidCalls, outputRet>>
         [] ~Held(1) /\ Held(2) ->
              /\ hpc' = "read_to_end_2"
              /\ ret' = Ret("blocked", NoStatus)
              /\ UNCHANGED <<nonblock, waitpidCalls, outputRet>>
         [] OTHER ->
              /\ OutputWait(vecs')
              /\ UNCHANGED nonblock
    /\ UNCHANGED <<pipes, prog, wrote, stdinLeft, taken, revents, builderVars,
                   execVars, cfds, ctlBuf, childVars, pid, status, signals,
                   sigPending, pc, theirs, input, output, nintr, result,
                   nullMode>>
    /\ UNCHANGED readRet
\* wait_with_output up to its first blocking call: drop(self.stdin.take()),
\* then the match on (self.stdout.take(), self.stderr.take()); with both
\* handles, read2 sets both pipes non-blocking and polls.
WaitWithOutput ==
    /\ pc = "done" /\ result.tag = "Ok"
    /\ hpc = "idle" /\ nops < MaxOps
    /\ nops' = nops + 1
    /\ lastCall' = "wait_with_output"
    /\ pfds' = DropStdin(pfds, ours)
    /\ ours' = [ours EXCEPT ![0] = NoFd]
    /\ vecs' = (1 :> <<>> @@ 2 :> <<>>)
    /\ CASE Held(1) /\ Held(2) ->
              /\ nonblock' = (1 :> TRUE @@ 2 :> TRUE)
              /\ hpc' = "poll"
              /\ ret' = Ret("blocked", NoStatus)
              /\ UNCHANGED <<waitpidCalls, outputRet>>
         [] Held(1) /\ ~Held(2) ->
              /\ hpc' = "read_to_end_1"
              /\ ret' = Ret("blocked", NoStatus)
              /\ UNCHANGED <<nonblock, waitpidCalls, outputRet>>
         [] ~Held(1) /\ Held(2) ->
              /\ hpc' = "read_to_end_2"
              /\ ret' = Ret("blocked", NoStatus)
              /\ UNCHANGED <<nonblock, waitpidCalls, outputRet>>
         [] OTHER ->
              /\ OutputWait(vecs')
              /\ UNCHANGED nonblock
    /\ UNCHANGED <<pipes, prog, wrote, stdinLeft, taken, revents, builderVars,
                   execVars, cfds, ctlBuf, childVars, pid, status, signals,
                   sigPending, pc, theirs, input, output, nintr, result,
                   nullMode>>
    /\ UNCHANGED readRet

\* A read that replaces what the Vec held.
OverwriteRead(v, data) == data
\* read_to_end appends the bytes a read returned to the Vec; bytes read
\* before an EWOULDBLOCK stay in it.
AppendRead(v, data) == v \o data

\* poll reports a stream when it has bytes (POLLIN) or no writer (POLLHUP).
Ready(s) == pipes[s] # <<>> \/ ~Writers(s)

\* read2: poll(fds, 2, -1) returns once a stream is ready, with both
\* streams' revents.
Poll ==
    /\ hpc = "poll"
    /\ \E s \in Outs : Ready(s)
    /\ revents' = [s \in Outs |-> Ready(s)]
    /\ hpc' = "p1"
    /\ UNCHANGED <<pipes, prog, wrote, stdinLeft, taken, vecs, nonblock,
                   outputRet, builderVars, execVars, cfds, ctlBuf, childVars,
                   pid, status, lastCall, ret, nops, waitpidCalls, signals,
                   sigPending, spawnVars>>

Read2Pc(s) == IF s = 1 THEN "p1" ELSE "p2"
AfterRead2(s) == IF s = 1 THEN "p2" ELSE "poll"
DrainPc(s) == IF s = 1 THEN "drain_1" ELSE "drain_2"

\* A read2 that treats end of file like EWOULDBLOCK and goes on polling.
Read2EofIgnored(s) ==
    /\ hpc = Read2Pc(s)
    /\ IF ~revents[s]
       THEN /\ hpc' = AfterRead2(s)
            /\ UNCHANGED <<pipes, vecs, nonblock>>
       ELSE IF pipes[s] # <<>>
       THEN /\ vecs' = [vecs EXCEPT ![s] = AppendRead(@, pipes[s])]
            /\ pipes' = [pipes EXCEPT ![s] = <<>>]
            /\ UNCHANGED <<hpc, nonblock>>
       ELSE /\ hpc' = AfterRead2(s)
            /\ UNCHANGED <<pipes, vecs, nonblock>>
    /\ UNCHANGED <<prog, wrote, stdinLeft, taken, revents, outputRet,
                   builderVars, execVars, cfds, ctlBuf, childVars, pid, status,
                   lastCall, ret, nops, waitpidCalls, signals, sigPending,
                   spawnVars>>
\* read2: `fds[s].revents != 0 && read(&p.0, v)?`, one read(2) at a time.
\* read_to_end appends what the read returns; on EWOULDBLOCK the bytes stay
\* in the Vec and the loop goes on; on EOF the other stream is set blocking
\* and read to its end.
Read2(s) ==
    /\ hpc = Read2Pc(s)
    /\ IF ~revents[s]
       THEN /\ hpc' = AfterRead2(s)
            /\ UNCHANGED <<pipes, vecs, nonblock>>
       ELSE IF pipes[s] # <<>>
       THEN /\ vecs' = [vecs EXCEPT ![s] = AppendRead(@, pipes[s])]
            /\ pipes' = [pipes EXCEPT ![s] = <<>>]
            /\ UNCHANGED <<hpc, nonblock>>
       ELSE IF Writers(s)
       THEN /\ hpc' = AfterRead2(s)
            /\ UNCHANGED <<pipes, vecs, nonblock>>
       ELSE /\ nonblock' = [nonblock EXCEPT ![Other(s)] = FALSE]
            /\ hpc' = DrainPc(Other(s))
            /\ UNCHANGED <<pipes, vecs>>
    /\ UNCHANGED <<prog, wrote, stdinLeft, taken, revents, outputRet,
                   builderVars, execVars, cfds, ctlBuf, childVars, pid, status,
                   lastCall, ret, nops, waitpidCalls, signals, sigPending,
                   spawnVars>>

\* A blocking read_to_end of stream s (the single handle of
\* wait_with_output, or read2's last stream), one read(2) at a time; at EOF
\* the handles are dropped and wait_with_output goes on to self.wait().
ReadToEnd(s) ==
    /\ hpc \in {DrainPc(s), IF s = 1 THEN "read_to_end_1" ELSE "read_to_end_2"}
    /\ IF pipes[s] # <<>>
       THEN /\ vecs' = [vecs EXCEPT ![s] = AppendRead(@, pipes[s])]
            /\ pipes' = [pipes EXCEPT ![s] = <<>>]
            /\ UNCHANGED <<hpc, ret, waitpidCalls, outputRet, ours, pfds>>
       ELSE /\ ~Writers(s)
            /\ pfds' = CloseSet(pfds, {ours[1], ours[2]} \ {NoFd})
            /\ ours' = [t \in Slots |-> NoFd]
            /\ OutputWait(vecs)
            /\ UNCHANGED <<pipes, vecs>>
    /\ UNCHANGED <<prog, wrote, stdinLeft, taken, revents, nonblock,
                   builderVars, execVars, cfds, ctlBuf, childVars, pid, status,
                   lastCall, nops, signals, sigPending, pc, theirs, input,
                   output, nintr, result, nullMode>>
    /\ UNCHANGED readRet

\* The waitpid of wait_with_output returns: the child is reaped and the
\* Output is returned.
OutputWaitReturn ==
    /\ hpc = "out_waitpid" /\ proc = "zombie"
    /\ proc' = "reaped"
    /\ status' = exitStatus
    /\ ret' = Ret("Ok", exitStatus)
    /\ outputRet' = Output(exitStatus, vecs[1], vecs[2])
    /\ hpc' = "consumed"
    /\ UNCHANGED <<pipes, prog, wrote, stdinLeft, taken, vecs, revents,
                   nonblock, builderVars, execVars, cfds, ctlBuf, cpc, cfail,
                   cerr, mfd, exitStatus, pid, lastCall, nops, waitpidCalls,
                   signals, sigPending, spawnVars, cstate>>

\* --------------------------------------------------------- specification
Next ==
    \/ \E cfg \in StdioCfgs : SetStdin(cfg) \/ SetStdout(cfg) \/ SetStderr(cfg)
    \/ \E dir \in {"good", "missing"} : SetCwd(dir)
    \/ Spawn
    \/ \E slot \in Slots : ToChildStdio(slot)
    \/ CtlPipe
    \/ \E p \in Pids : ForkOk(p)
    \/ ForkFail
    \/ DropOutput
    \/ ReadEINTR
    \/ ReadCtl
    \/ ChildDropInput
    \/ \E slot \in Slots : ChildDup2(slot)
    \/ ChildChdir
    \/ ChildSigReset
    \/ \E oom \in BOOLEAN : ChildMemfd(oom)
    \/ \E how \in {"full", "short", "error"} : ChildWrite(how)
    \/ ChildExec
    \/ ChildPanicUnwind
    \/ ChildPanicAbort
    \/ ChildCallerExit
    \/ \E st \in ExitStatuses : ImageExit(st)

Spec == Init /\ [][Next]_vars

\* The handle's life: the state in which spawn has just returned Ok(Child) for
\* a builder with nothing configured (the child runs the new image), and
\* from there the caller's calls on the handle.
HandleInit ==
    /\ code = "elf" /\ cwd = "None"
    /\ stdin \in {Unset, MakePipe} /\ stdout = Unset /\ stderr = Unset
    /\ program = "prog"
    /\ argv = <<"prog">> /\ env = DefaultEnv /\ saw_nul = FALSE
    /\ environ = ParentEnv /\ envRef = ParentEnv
    /\ envp = NoEnvp /\ image = [argv |-> argv, envp |-> <<>>]
    /\ LET piped == (stdin = MakePipe)
           ttys == [n \in Fds |-> IF n \in Slots THEN Entry(Tty(n), FALSE)
                                                  ELSE Closed]
       IN  /\ pfds = IF piped THEN Install(ttys, 4, PipeObj(0, "w"), TRUE)
                               ELSE ttys
           /\ cfds = IF piped THEN Install(ttys, 0, PipeObj(0, "r"), FALSE)
                               ELSE ttys
           /\ ours = [s \in Slots |-> IF s = 0 /\ piped THEN 4 ELSE NoFd]
           /\ theirs = [s \in Slots |-> IF s = 0 /\ piped
                                            THEN ChildStdio("Owned", 3)
                                            ELSE CInherit]
           /\ input = (IF piped THEN 5 ELSE 3)
           /\ output = (IF piped THEN 6 ELSE 4)
           /\ mfd = (IF piped THEN 5 ELSE 3)
    /\ ctlBuf = <<>>
    /\ pc = "done"
    /\ nintr = 0
    /\ readRet = ReadRet("Ok", <<>>, NoErrno)
    /\ cstate = [ResetState EXCEPT !.memfd = "full"]
    /\ result = Res("Ok", NoErrno)
    /\ proc = "image" /\ cpc = "execd"
    /\ cfail = NoRes /\ cerr = NoRes
    /\ exitStatus = NoStatus
    /\ pid \in Pids /\ status = NoStatus /\ hpc = "idle"
    /\ lastCall = "none" /\ ret = Ret("none", NoStatus)
    /\ nops = 0 /\ waitpidCalls = 0
    /\ signals = <<>> /\ sigPending = FALSE
    /\ nullMode = [s \in Slots |-> "none"]
    /\ IoIdle /\ prog = SilentProg /\ stdinLeft = <<>>

HandleNext ==
    \/ Wait
    \/ WaitpidReturn
    \/ WaitpidEINTR
    \/ TryWait
    \/ Kill
    \/ DeliverSignal
    \/ \E st \in ExitStatuses : ImageExit(st)

HandleSpec == HandleInit /\ [][HandleNext]_vars

\* The builder's arguments, working directory and environment changes, and a
\* spawn with no stdio configured: the caller's strings may hold a NUL byte.
EnvInit == Init /\ code = "elf" /\ pfds[3] = Closed

EnvNext ==
    \/ \E a \in {"-l", "a\\0b"} : Arg(a)
    \/ \E k \in Keys : \E v \in Vals : SetEnv(k, v)
    \/ \E k \in Keys : EnvRemove(k)
    \/ EnvClear
    \/ \E dir \in {"good", "d\\0"} : SetCwd(dir)
    \/ Spawn
    \/ \E slot \in Slots : ToChildStdio(slot)
    \/ CtlPipe
    \/ \E p \in Pids : ForkOk(p)
    \/ DropOutput
    \/ ReadCtl
    \/ ChildDropInput
    \/ \E slot \in Slots : ChildDup2(slot)
    \/ ChildChdir
    \/ ChildSigReset
    \/ ChildMemfd(FALSE)
    \/ ChildWrite("full")
    \/ ChildExec
    \/ ChildPanicUnwind
    \/ ChildPanicAbort
    \/ ChildCallerExit

EnvSpec == EnvInit /\ [][EnvNext]_vars

\* The control-pipe protocol: a spawn whose child may fail before the exec,
\* a peer that may send any message, and a read that may be interrupted or
\* fail.
CtlInit == Init /\ pfds = ParentTable(0)

CtlNext ==
    \/ \E dir \in {"good", "missing"} : SetCwd(dir)
    \/ Spawn
    \/ \E slot \in Slots : ToChildStdio(slot)
    \/ CtlPipe
    \/ \E p \in Pids : ForkOk(p)
    \/ DropOutput
    \/ ReadEINTR
    \/ ReadCtl
    \/ ReadFail(EBADF)
    \/ ChildDropInput
    \/ \E slot \in Slots : ChildDup2(slot)
    \/ ChildChdir
    \/ ChildSigReset
    \/ \E oom \in BOOLEAN : ChildMemfd(oom)
    \/ \E how \in {"full", "short", "error"} : ChildWrite(how)
    \/ ChildExec
    \/ \E b \in CtlMessages : CtlSend(b)
    \/ ChildPanicUnwind
    \/ ChildPanicAbort
    \/ ChildCallerExit
    \/ \E st \in ExitStatuses : ImageExit(st)

CtlSpec == CtlInit /\ [][CtlNext]_vars

\* A running child that exits with any code or is terminated by any signal,
\* and a caller that waits for it and reads the status.
StatusInit == HandleInit /\ stdin = Unset

StatusNext ==
    \/ \E c \in ExitCodes : ImageExit(WExitCode(c))
    \/ \E sig \in Signals, core \in BOOLEAN : ImageExit(WSignaled(sig, core))
    \/ Kill
    \/ DeliverSignal
    \/ Wait
    \/ WaitpidReturn
    \/ Code
    \/ Signal

StatusSpec == StatusInit /\ [][StatusNext]_vars


\* A builder, the calls that configure it, and exec(Stdio::Inherit).
ExecInit ==
    /\ \E name \in {"prog", "p\\0"} : MemFdExecutableNew(name)
    /\ code = "elf" /\ pfds = ParentTable(0)
    /\ prog = SilentProg /\ stdinLeft = <<>>
ExecNext ==
    \/ \E a \in {"-l", "a\\0b"} : Arg(a)
    \/ \E name \in {"dir/prog", "p\\0"} : SetProgram(name)
    \/ \E dir \in {"good", "missing", "d\\0"} : SetCwd(dir)
    \/ \E v \in Vals : SetEnv("X", v)
    \/ \E cfg \in {MakePipe, Null} : SetStdin(cfg) \/ SetStdout(cfg)
    \/ Exec
    \/ \E slot \in Slots : ToChildStdio(slot)
    \/ ExecDoExec
    \/ \E slot \in Slots : ChildDup2(slot)
    \/ ChildChdir
    \/ ChildSigReset
    \/ ChildMemfd(FALSE)
    \/ \E how \in {"full", "short"} : ChildWrite(how)
    \/ ChildExec
    \/ ExecReturn
ExecSpec == ExecInit /\ [][ExecNext]_vars

\* An ExitStatus built from any raw value, and the caller's queries of it.
RawInit == HandleInit /\ stdin = Unset
RawNext ==
    \/ \E raw \in RawStatuses : ExitStatusNew(raw)
    \/ Code
    \/ Signal
    \/ CoreDumped
    \/ StoppedSignal
    \/ Continued
    \/ ExitOk
    \/ IntoRaw
RawSpec == RawInit /\ [][RawNext]_vars

\* Piped stdio: a builder whose streams are piped or left alone, an image
\* that writes to its streams or copies its stdin, a caller that writes to
\* the child's stdin and collects the output.
OutputInit ==
    /\ New /\ code = "elf" /\ pfds = ParentTable(0)
    /\ prog \in Progs
    /\ stdinLeft \in {Bytes(n) : n \in 0..MaxOut}
    /\ prog.kind # "cat" => stdinLeft = <<>>

OutputNext ==
    \/ SetStdin(MakePipe) \/ SetStdout(MakePipe) \/ SetStderr(MakePipe)
    \/ Spawn
    \/ \E slot \in Slots : ToChildStdio(slot)
    \/ CtlPipe
    \/ \E p \in Pids : ForkOk(p)
    \/ DropOutput
    \/ ReadCtl
    \/ ChildDropInput
    \/ \E slot \in Slots : ChildDup2(slot)
    \/ ChildChdir
    \/ ChildSigReset
    \/ ChildMemfd(FALSE)
    \/ ChildWrite("full")
    \/ ChildExec
    \/ \E s \in Outs : ImgWrite(s)
    \/ ImgRead
    \/ ImgFinish
    \/ TakeStdin
    \/ StdinWrite
    \/ StdinClose
    \/ Wait
    \/ WaitpidReturn
    \/ WaitWithOutput
    \/ Poll
    \/ \E s \in Outs : Read2(s)
    \/ \E s \in Outs : ReadToEnd(s)
    \/ OutputWaitReturn

OutputSpec == OutputInit /\ [][OutputNext]_vars

\* A spawn with the default stdio, as the tests run ls and cat, followed by
\* Child::wait; the child's steps before the exec may fail.
RunInit ==
    /\ Init /\ pfds = ParentTable(0)

RunNext ==
    \/ \E dir \in {"good", "missing"} : SetCwd(dir)
    \/ Spawn
    \/ \E slot \in Slots : ToChildStdio(slot)
    \/ CtlPipe
    \/ \E p \in Pids : ForkOk(p)
    \/ DropOutput
    \/ ReadCtl
    \/ ChildDropInput
    \/ \E slot \in Slots : ChildDup2(slot)
    \/ ChildChdir
    \/ ChildSigReset
    \/ \E oom \in BOOLEAN : ChildMemfd(oom)
    \/ \E how \in {"full", "short", "error"} : ChildWrite(how)
    \/ ChildExec
    \/ ChildPanicUnwind
    \/ ChildPanicAbort
    \/ ChildCallerExit
    \/ \E st \in ExitStatuses : ImageExit(st)
    \/ Wait
    \/ WaitpidReturn

RunSpec == RunInit /\ [][RunNext]_vars

\* Every process keeps running: the parent, its writer thread and the child
\* take a step whenever one of them can.
OutputFairSpec == OutputSpec /\ WF_vars(OutputNext)
\* ------------------------------------------------------------------ claims
\* EOF is what a read of the control pipe returns: the pipe is empty and no
\* process holds its write end.
EofVisible == pc = "read" /\ ctlBuf = <<>> /\ ~CtlWriters
ChildFailed == cfail.tag # "none"

\* C1: spawn returns Ok(Child) only if the child's image was replaced by the
\* in-memory executable.
C1_OkOnlyIfExecd == result.tag = "Ok" => cpc = "execd"

\* C2: when a child-side step after the fork fails with OS error e, spawn
\* returns Err whose raw OS error code is e.
C2_ErrnoPreserved ==
    (pc = "done" /\ ChildFailed /\ cfail.errno # NoErrno)
        => result = Res("Err", cfail.errno)

\* C3: whenever the child failed to exec, it has been reaped by the time spawn
\* returns, so no zombie (and no live clone of the parent) remains.
C3_FailedChildReaped == (pc = "done" /\ ChildFailed) => proc = "reaped"

\* C4: a child whose post-fork step failed terminates at once; control never
\* gets back, by return or by unwinding, into the code that called spawn.
C4_ChildNeverInCaller == ChildFailed => cpc # "in_caller"

\* C5: the parent cannot see EOF on the control pipe before the child has
\* committed: replaced its image, or reported the failure and exited (a
\* reported failure leaves the record in the pipe, so an empty pipe at EOF
\* leaves only the replaced image).
C5_NoEofBeforeCommit == EofVisible => cpc = "execd"

\* C6: once a status is cached, every later wait and try_wait returns that
\* status, issues no OS wait call and does not block.
C6_CachedStatusIsStable ==
    [][(status # NoStatus /\ nops' = nops + 1
          /\ lastCall' \in {"wait", "try_wait"})
       => /\ ret' \in {Ret("Ok", status), Ret("Some", status)}
          /\ status' = status
          /\ waitpidCalls' = waitpidCalls
          /\ hpc' = "idle"
          /\ proc' = proc]_vars
\* The status was cached by one OS wait, and two more calls were served from
\* the cache, the last one a try_wait.
C6_Witness ==
    /\ nops = 3 /\ waitpidCalls = 1 /\ lastCall = "try_wait"
    /\ status # NoStatus /\ ret = Ret("Some", status)

\* C7: kill on a handle with a cached status returns an error and signals
\* no pid; kill on a handle without one sends SIGKILL to the handle's pid.
C7_KillOnlyUnreaped ==
    [][(nops' = nops + 1 /\ lastCall' = "kill")
       => IF status # NoStatus
          THEN ret'.tag = "InvalidInput" /\ signals' = signals
          ELSE signals' = Append(signals, [pid |-> pid, sig |-> "SIGKILL"])]_vars
\* A first kill sent the signal, the status was cached, and a later kill was
\* refused.
C7_Witness ==
    /\ lastCall = "kill" /\ ret.tag = "InvalidInput" /\ status # NoStatus
    /\ Len(signals) = 1

\* C8: try_wait never blocks; while the child runs it returns None and caches
\* nothing (so a following kill still signals and a following wait still
\* calls the OS); once the child has exited it caches and returns the status.
C8_TryWaitNeverBlocks ==
    [][/\ (nops' = nops + 1 /\ lastCall' = "try_wait")
          => /\ hpc' = "idle"
             /\ status = NoStatus =>
                  IF proc = "zombie"
                  THEN /\ status' = exitStatus /\ proc' = "reaped"
                       /\ ret' = Ret("Some", exitStatus)
                  ELSE /\ status' = NoStatus /\ proc' = proc
                       /\ ret' = Ret("None", NoStatus)
       /\ (lastCall = "try_wait" /\ ret.tag = "None" /\ nops' = nops + 1)
          => /\ lastCall' = "kill" => Len(signals') = Len(signals) + 1
             /\ lastCall' = "wait" => waitpidCalls' = waitpidCalls + 1]_vars
\* try_wait returned None on a running child, and the kill that followed
\* sent its signal.
C8_Witness ==
    /\ nops = 2 /\ lastCall = "kill" /\ Len(signals) = 1 /\ waitpidCalls = 1
    /\ status = NoStatus

\* C9: for a stream configured Null, the descriptor on the child's standard
\* slot at exec time is the null device and nothing else.
C9_NullSlotIsNullDevice ==
    (cpc = "execd" /\ proc = "image")
        => \A s \in Slots : EffCfg(s) = Null => cfds[s].obj.k = "null"

\* C10: the null device is opened read-only for stdin and write-only for
\* stdout and stderr.
C10_NullAccessMode ==
    \A s \in Slots :
        nullMode[s] # "none" => nullMode[s] = (IF s = 0 THEN "r" ELSE "w")

\* C11: the environment handed to the new image is the caller's diff applied
\* to the current process environment (to an empty base when the diff is
\* cleared); with no change configured it is the parent's environment.
C11_ImageEnvIsCapturedEnv ==
    (cpc = "execd" /\ ~saw_nul) => EnvOf(image.envp) = Capture(env, environ)

\* C12: when a name, argument, working directory or environment entry held a
\* NUL byte, the child's image is not replaced and spawn reports a failure.
C12_NulStopsSpawn ==
    saw_nul => (cpc # "execd" /\ (pc = "done" => result.tag = "Err"))

\* The object a caller-supplied descriptor refers to.
SourceObj(fd) == IF fd \in Slots THEN Tty(fd) ELSE UserObj
\* The end of a stdio pipe that belongs to the child, and to the parent.
ChildEnd(slot) == IF slot = 0 THEN "r" ELSE "w"
ParentEnd(slot) == IF slot = 0 THEN "w" ELSE "r"
\* The new image runs.
Execd == cpc = "execd" /\ proc = "image"

\* C13: a caller-supplied descriptor numbered 0, 1 or 2 is first duplicated
\* to a fresh descriptor above 2, so no dup2 of the child overwrites a
\* descriptor a later dup2 reads: each slot routed from a descriptor ends up
\* on that descriptor's object, whatever its number.
C13_StdFdDuplicated ==
    \A s \in Slots :
        EffCfg(s).kind = "Fd" =>
            /\ (theirs[s] # CInherit /\ EffCfg(s).fd <= STDERR_FILENO)
                    => (theirs[s].tag = "Owned" /\ theirs[s].fd > STDERR_FILENO)
            /\ Execd => cfds[s].obj = SourceObj(EffCfg(s).fd)
\* The parent's stdout and stderr arrive swapped in the child.
C13_Witness ==
    /\ Execd /\ stdout = Cfg("Fd", 2) /\ stderr = Cfg("Fd", 1)
    /\ cfds[1].obj = Tty(2) /\ cfds[2].obj = Tty(1)

\* C14: after a successful spawn each routed stream is on its conventional
\* slot of the child, and every slot configured Inherit (or not configured)
\* still refers to what the parent had on that slot.
C14_SlotsAfterSpawn ==
    Execd =>
        \A s \in Slots :
            cfds[s].obj =
                CASE EffCfg(s).kind = "Inherit" -> Tty(s)
                  [] EffCfg(s).kind = "MakePipe" -> PipeObj(s, ChildEnd(s))
                  [] EffCfg(s).kind = "Fd" -> SourceObj(EffCfg(s).fd)
                  [] OTHER -> NullObj(ChildEnd(s))

\* C15: for a stream configured MakePipe the child holds the read end and the
\* parent the write end for stdin, and the other way round for stdout and
\* stderr, from the routing on (a handle of the returned Child that is still
\* open is the parent's end).
C15_PipeOrientation ==
    \A s \in Slots :
        EffCfg(s).kind = "MakePipe" =>
            /\ (pc \in {"anon_pipe", "fork", "drop_output", "read"})
                    => /\ pfds[ours[s]].obj = PipeObj(s, ParentEnd(s))
                       /\ pfds[theirs[s].fd].obj = PipeObj(s, ChildEnd(s))
            /\ (pc = "done" /\ result.tag = "Ok" /\ IsOpen(pfds, ours[s]))
                    => pfds[ours[s]].obj = PipeObj(s, ParentEnd(s))
            /\ Execd => cfds[s].obj = PipeObj(s, ChildEnd(s))
\* spawn returned a Child whose stdin handle is a write end and whose stdout
\* handle is a read end, and the image has the other ends on slots 0 and 1.
C15_Witness ==
    /\ pc = "done" /\ result.tag = "Ok" /\ Execd
    /\ stdin = MakePipe /\ stdout = MakePipe
    /\ pfds[ours[0]].obj = PipeObj(0, "w") /\ pfds[ours[1]].obj = PipeObj(1, "r")
    /\ cfds[0].obj = PipeObj(0, "r") /\ cfds[1].obj = PipeObj(1, "w")

\* C19: a setup error or a fork failure is returned as the OS error, no child
\* exists, and every descriptor the call had created is released: the
\* caller's descriptor table is as before the call.
C19_SetupErrorReleasesAll ==
    (pc = "done" /\ result.tag = "Err")
        => /\ result.errno \in {EMFILE, EAGAIN}
           /\ proc = "none" /\ pid = 0 /\ cfds = AllClosed
           /\ \E nuser \in UserFdCounts : pfds = ParentTable(nuser)
\* A later step of the setup failed with EMFILE after the stdin pipe had been
\* created, and the pipe's two descriptors are closed again.
C19_Witness ==
    /\ pc = "done" /\ result = Res("Err", EMFILE)
    /\ ours[0] # NoFd /\ theirs[0].tag = "Owned" /\ input = NoFd
    /\ ~IsOpen(pfds, ours[0]) /\ ~IsOpen(pfds, theirs[0].fd)
\* C16: with stdout and stderr both piped and a child that writes unequal
\* amounts to them in any interleaving and then exits, a wait_with_output
\* that has started to drain the two streams always returns, and what it
\* returns for each stream is exactly what the child wrote to it, in order,
\* all of it, whichever stream ends first and also when a stream carries
\* more than the pipe holds.
BothPiped == stdout = MakePipe /\ stderr = MakePipe
Returned == hpc = "consumed" /\ lastCall = "wait_with_output"
C16_DualStreamDrain ==
    /\ []((Returned /\ BothPiped) =>
            /\ outputRet.stdout = wrote[1]
            /\ outputRet.stderr = wrote[2]
            /\ prog.out[1] = <<>> /\ prog.out[2] = <<>>)
    /\ (hpc = "poll") ~> Returned
\* A child wrote more than a pipe holds to stdout and a single byte to
\* stderr, and wait_with_output returned both.
C16_Witness ==
    /\ Returned /\ BothPiped
    /\ prog.kind = "writer"
    /\ Len(outputRet.stdout) = MaxOut /\ Len(outputRet.stderr) = 1
    /\ MaxOut > PipeCap
\* The other stream was the longer one.
C16_WitnessStderrLonger ==
    /\ Returned /\ BothPiped
    /\ Len(outputRet.stderr) = MaxOut /\ Len(outputRet.stdout) = 1

\* C17: a program that copies its stdin to its stdout is spawned with both
\* piped; the caller writes b to the stdin handle and closes it, and calls
\* wait_with_output: the stdout it returns is b.
C17_CatRoundTrip ==
    (Returned /\ prog.kind = "cat" /\ stdin = MakePipe /\ stdout = MakePipe) =>
        /\ outputRet.stdout = wrote[0]
        /\ stdinLeft = <<>> => outputRet.stdout = Bytes(Len(wrote[0]))
\* All of a b longer than the pipe holds was written by the thread that took
\* the stdin handle, and came back.
C17_Witness ==
    /\ Returned /\ prog.kind = "cat" /\ stdin = MakePipe /\ stdout = MakePipe
    /\ stdinLeft = <<>> /\ taken = NoFd
    /\ outputRet.stdout = Bytes(MaxOut)
    /\ MaxOut > PipeCap
\* C20: whenever Child::wait or Child::wait_with_output is in its waitpid
\* call, the Child holds no stdin handle any more and the descriptor it held
\* is closed: the only write end of the stdin pipe the parent may still have
\* is the one the caller took out of the Child, so that, when none was
\* taken, an image reading its stdin is at end of file once the pipe is
\* empty.
InWaitpid == hpc \in {"in_waitpid", "out_waitpid"}
C20_StdinDroppedBeforeWaitpid ==
    InWaitpid =>
        /\ ours[0] = NoFd
        /\ \A n \in Fds : pfds[n].obj = PipeObj(0, "w") => n = taken
        /\ (taken = NoFd /\ proc = "image") => ~Writers(0)
\* wait() is in waitpid on a running cat whose stdin was piped and whose
\* handle the Child had kept until the call: the pipe has no writer left.
C20_Witness ==
    /\ hpc = "in_waitpid" /\ lastCall = "wait"
    /\ stdin = MakePipe /\ taken = NoFd
    /\ proc = "image" /\ prog.kind = "cat"
    /\ cfds[0].obj = PipeObj(0, "r")
    /\ ~Writers(0)
\* The same in the waitpid of wait_with_output.
C20_WitnessOutput ==
    /\ hpc = "out_waitpid"
    /\ stdin = MakePipe /\ taken = NoFd
    /\ wrote[0] # <<>>
\* C18: for a valid executable image, once spawn has returned a handle and
\* wait() has returned a status, that status is the one of the image run
\* with the builder's arguments, as a process started from a file with those
\* arguments would have reported it.
WaitReturned ==
    /\ pc = "done" /\ result.tag = "Ok"
    /\ lastCall = "wait" /\ hpc = "idle" /\ ret.tag = "Ok"
C18_WaitReportsTheImage ==
    (code = "elf" /\ WaitReturned) =>
        /\ cpc = "execd"
        /\ image.argv = argv
        /\ ret.st = exitStatus
\* C21: for a child that exited with code c, code() returns c and signal()
\* no value; for a child terminated by signal s, with or without a core
\* dump, signal() returns s and code() no value; no status has both a code
\* and a signal.
SomeI32(v) == [tag |-> "Some", st |-> v]
NoneI32 == [tag |-> "None", st |-> NoStatus]
C21_CodeXorSignal ==
    status # NoStatus =>
        /\ \A c \in ExitCodes : status = WExitCode(c) =>
              (ExitStatusCode(status) = SomeI32(c) /\ ExitStatusSignal(status) = NoneI32)
        /\ \A sig \in Signals, core \in BOOLEAN : status = WSignaled(sig, core) =>
              (ExitStatusSignal(status) = SomeI32(sig) /\ ExitStatusCode(status) = NoneI32)
        /\ ~(ExitStatusCode(status).tag = "Some" /\ ExitStatusSignal(status).tag = "Some")
        /\ lastCall = "code" => ret = ExitStatusCode(status)
        /\ lastCall = "signal" => ret = ExitStatusSignal(status)
\* The child was killed through the handle; code() returned no value and
\* then signal() returned 9.
C21_Witness ==
    /\ status = KilledStatus /\ Len(signals) = 1
    /\ lastCall = "signal" /\ ret = SomeI32(9)
    /\ ExitStatusCode(status) = NoneI32
\* The child exited with 42 and code() returned 42.
C21_WitnessCode ==
    /\ status = WExitCode(42)
    /\ lastCall = "code" /\ ret = SomeI32(42)
\* C22: output() spawns the child, waits for it to complete and returns its
\* exit status with the data the child wrote to stdout and to stderr, also
\* when the builder configured no stdio.
OutputCalled ==
    /\ Returned /\ nops = 1
    /\ taken = NoFd /\ wrote[0] = <<>>
C22_OutputCollectsStreams ==
    OutputCalled => outputRet = Output(exitStatus, wrote[1], wrote[2])
\* C23: a child whose step after the fork failed has written, by the time it
\* terminates, exactly one record to the control pipe: the error number in 4
\* big-endian bytes, then "NOEX"; the pipe never holds anything else.
C23_FailureRecordWritten ==
    /\ (ChildFailed /\ proc = "zombie" /\ pc # "done") =>
           ctlBuf = ErrnoRecord(cfail.errno)
    /\ ctlBuf # <<>> => \E e \in {cfail.errno} : ctlBuf = ErrnoRecord(e)
\* C24: when the read of the control pipe returned exactly 8 bytes that end
\* in the footer, spawn returns Err with the error number the first 4 bytes
\* hold in big-endian order, the child has been reaped by a blocking wait,
\* and no Child is returned.
SentErrnos == {ENOENT, EBADF, -ENOENT, ENOEXEC}
ReadRecord ==
    /\ pc = "done" /\ readRet.tag = "Ok"
    /\ Len(readRet.bytes) = 8
    /\ SubSeq(readRet.bytes, 5, 8) = CLOEXEC_MSG_FOOTER
C24_RecordDecoded ==
    ReadRecord =>
        /\ result.tag = "Err"
        /\ \A e \in SentErrnos :
              SubSeq(readRet.bytes, 1, 4) = ToBeBytes(e) => result.errno = e
        /\ proc = "reaped" /\ status = exitStatus /\ waitpidCalls = 1
        /\ hpc = "dropped"
\* The record of a negative error number was read and decoded.
C24_Witness ==
    /\ ReadRecord
    /\ readRet.bytes = <<255, 255, 255, 254, 78, 79, 69, 88>>
    /\ result = Res("Err", -ENOENT)
    /\ proc = "reaped"
\* C25: when the read of the control pipe returned a byte count other than 0
\* and 8, or 8 bytes that do not end in the footer, or failed with an error
\* other than EINTR, spawn has reaped the child when it panics, and it
\* returns neither Ok nor Err.
ProtocolViolation ==
    /\ pc = "done"
    /\ \/ readRet.tag = "Ok" /\ Len(readRet.bytes) \notin {0, 8}
       \/ readRet.tag = "Ok" /\ Len(readRet.bytes) = 8
            /\ SubSeq(readRet.bytes, 5, 8) # CLOEXEC_MSG_FOOTER
       \/ readRet.tag = "Err" /\ readRet.errno # EINTR
C25_ViolationReapsThenPanics ==
    ProtocolViolation => (result.tag = "Panic" /\ proc = "reaped")
\* C26: while spawn runs, every descriptor wrapper alive in the parent (the
\* parent's stream ends, the child's routed ends, the two ends of the
\* control pipe) holds an open descriptor, and no two of them hold the same
\* number, so that no drop closes a descriptor a second time or one that
\* another wrapper owns; for every stdio configuration.
Wrappers ==
    {<<"ours", s>> : s \in Slots} \cup {<<"theirs", s>> : s \in Slots}
        \cup {<<"input", 0>>, <<"output", 0>>}
WrapperFd(w) ==
    CASE w[1] = "ours" -> ours[w[2]]
      [] w[1] = "theirs" ->
           IF theirs[w[2]].tag = "Owned" THEN theirs[w[2]].fd ELSE NoFd
      [] w[1] = "input" ->
           IF pc \in {"fork", "drop_output", "read"} THEN input ELSE NoFd
      [] OTHER ->
           IF pc \in {"fork", "drop_output"} THEN output ELSE NoFd
InSpawn == pc \notin {"builder", "done"}
C26_ExclusiveOwnership ==
    InSpawn =>
        \A w \in Wrappers : WrapperFd(w) # NoFd =>
            /\ IsOpen(pfds, WrapperFd(w))
            /\ \A v \in Wrappers \ {w} : WrapperFd(v) # WrapperFd(w)
\* C27 (as claimed): when the parent reads the control pipe, it has closed
\* its own handles to the child's routed descriptors.
TheirsOpen(tbl) ==
    {s \in Slots : theirs[s].tag = "Owned" /\ IsOpen(tbl, theirs[s].fd)}
C27_TheirsClosedBeforeRead == pc = "read" => TheirsOpen(pfds) = {}

\* C27 (amended): before it constructs the process handle and reads the
\* control pipe the parent closes its copy of the control pipe's write end;
\* its handles to the child's routed descriptors are closed only when spawn
\* returns, and are closed then.
ParentCtlWriter == \E n \in Fds : pfds[n].obj = PipeObj(CtlId, "w")
C27_WriteEndClosedBeforeRead ==
    /\ [](pc = "read" => ~ParentCtlWriter)
    /\ []((pc = "done" /\ pid # 0) => TheirsOpen(pfds) = {})
    /\ [][theirs' = theirs
            => (TheirsOpen(pfds) \subseteq TheirsOpen(pfds') \/ pc' = "done")]_vars
\* The parent is reading the control pipe and still holds the write end of
\* the stdout pipe it made for the child.
C27_Witness ==
    /\ pc = "read" /\ stdout = MakePipe
    /\ theirs[1].tag = "Owned"
    /\ pfds[theirs[1].fd].obj = PipeObj(1, "w")
    /\ ~ParentCtlWriter
\* C28: the parent has closed its copy of the control pipe's write end when
\* it reads, the child closes its copy of the read end before its first
\* step of do_exec, and once the child has exec'd or terminated nobody holds
\* the write end: the parent's read then returns (end of file, or what the
\* pipe holds) instead of blocking.
ChildCtlReader == \E n \in Fds : cfds[n].obj = PipeObj(CtlId, "r")
ChildCommitted == proc \in {"image", "zombie", "reaped"}
C28_ReadNeverBlocksForever ==
    /\ pc = "read" => ~ParentCtlWriter
    /\ (proc = "forked" /\ cpc # "drop_input") => ~ChildCtlReader
    /\ (pc = "read" /\ ChildCommitted) => ~CtlWriters
\* The image runs, with stdout piped, while the parent is still at its read
\* of the control pipe: the pipe has no writer left.
C28_Witness ==
    /\ pc = "read" /\ nintr = 0
    /\ proc = "image" /\ cpc = "execd"
    /\ stdout = MakePipe
    /\ ~CtlWriters
\* C29: a read of the control pipe that failed with EINTR leaves spawn in its
\* loop, with no result, the child not waited for and not reaped; and what
\* spawn returns in the end is decided by the read that was not
\* interrupted, as it is when no interruption happened: Ok at end of file,
\* Err on a record.
Interrupted == readRet.tag = "Err" /\ readRet.errno = EINTR
C29_InterruptedReadRetried ==
    /\ Interrupted =>
          /\ pc = "read" /\ result = NoRes
          /\ proc # "reaped" /\ status = NoStatus /\ waitpidCalls = 0
    /\ (pc = "done" /\ pid # 0 /\ readRet.tag = "Ok") =>
          /\ readRet.bytes = <<>> => result = Res("Ok", NoErrno)
          /\ ReadRecord => result.tag = "Err"
\* The read was interrupted as often as the bound allows, and spawn then
\* returned the Child of an exec'd image.
C29_Witness ==
    /\ pc = "done" /\ nintr = MaxIntr /\ MaxIntr > 0
    /\ readRet = ReadRet("Ok", <<>>, NoErrno)
    /\ result = Res("Ok", NoErrno) /\ cpc = "execd"
DoExecSteps == <<"dup2_stdin", "dup2_stdout", "dup2_stderr", "chdir",
                 "sigreset", "memfd_create", "write", "fexecve">>
StepNo(p) == CHOOSE i \in 1..Len(DoExecSteps) : DoExecSteps[i] = p
InDoExec == proc = "forked" /\ cpc \in {DoExecSteps[i] : i \in 1..Len(DoExecSteps)}
\* The child's slot already refers to what the routed descriptor refers to.
Dup2Done(s) ==
    \/ FdOf(theirs[s]) = NoFd
    \/ /\ IsOpen(cfds, FdOf(theirs[s]))
       /\ cfds[s] = Entry(cfds[FdOf(theirs[s])].obj, FALSE)
ChdirDone == cwd # "None" => cstate.cwd = cwd
SigResetDone == cstate.sigmask = "empty" /\ cstate.sigpipe = "SIG_DFL"

\* C31: the child takes the steps of do_exec in the fixed order dup2 onto
\* slot 0, 1, 2, chdir, signal reset, memfd creation and filling, fexecve;
\* each step's effect is there only when every earlier step succeeded, and
\* after the first failure no later step has any effect.
C31_DoExecOrder ==
    /\ [][(InDoExec /\ cpc' # cpc) =>
             \/ cpc' = "panic"
             \/ cpc = "fexecve" /\ cpc' = "execd"
             \/ /\ cpc # "fexecve"
                /\ cpc' = DoExecSteps[StepNo(cpc) + 1]]_vars
    /\ []((InDoExec /\ cfail = NoRes) =>
             /\ cstate.cwd # "start" => \A s \in Slots : Dup2Done(s)
             /\ cstate.sigmask = "empty" =>
                    ChdirDone /\ \A s \in Slots : Dup2Done(s)
             /\ mfd # NoFd =>
                    /\ SigResetDone /\ ChdirDone
                    /\ \A s \in Slots : Dup2Done(s))
    /\ [](cstate.memfd # "none" => mfd # NoFd /\ SigResetDone /\ ChdirDone)
    /\ [](cstate.sigmask = "empty" => ChdirDone)
    /\ [](image # NoImage => cstate.memfd = "full" /\ cfail = NoRes)
    /\ [][cfail # NoRes =>
             /\ cstate' = cstate /\ mfd' = mfd /\ image' = image
             /\ cfail' = cfail
             /\ \A n \in Fds : cfds'[n] = cfds[n] \/ cfds'[n] = Closed]_vars
\* The in-memory file exists in a child that routed its stdout to a pipe and
\* changed its directory; and, in another run, the chdir failed and the
\* child has neither reset its signals nor created the file.
C31_Witness ==
    /\ InDoExec /\ cpc = "write" /\ mfd # NoFd
    /\ stdout = MakePipe /\ cfds[1].obj = PipeObj(1, "w")
    /\ cwd = "good" /\ cstate.cwd = "good" /\ SigResetDone
C31_WitnessFailure ==
    /\ cfail = Res("chdir", ENOENT) /\ proc = "zombie"
    /\ stdout = MakePipe /\ cfds = AllClosed
    /\ mfd = NoFd /\ cstate = CallerState

\* fexecve(mfd, ..) has been called, or is the next call.
ExecAttempted ==
    cpc \in {"fexecve", "execd"} \/ cfail.tag = "fexecve" \/ image # NoImage

\* C32: fexecve is called only on a completely written in-memory file: a
\* short or failed write of the image is a failure of the child, after which
\* no image replacement is attempted.
C32_ExecOnlyFullImage ==
    /\ ExecAttempted => cstate.memfd = "full"
    /\ cstate.memfd \in {"empty", "partial"} =>
          /\ ~ExecAttempted
          /\ cpc # "write" => /\ cfail.tag \in {"write"}
                              /\ cerr.tag \in {"Custom", "Os"}
    /\ cfail.tag = "write" => image = NoImage /\ proc # "image"
\* The write stored part of the image: the child failed with the custom
\* error and ended without an exec.
C32_Witness ==
    /\ cstate.memfd = "partial" /\ cfail = Res("write", NoErrno)
    /\ cerr = Res("Custom", NoErrno)
    /\ proc = "zombie" /\ image = NoImage /\ code = "elf"

\* read2's read of stream s is the next step and will find: no byte and a
\* writer left (EWOULDBLOCK); no byte and no writer (end of file).
WouldBlock(s) ==
    hpc = Read2Pc(s) /\ revents[s] /\ pipes[s] = <<>> /\ Writers(s)
EofRead(s) ==
    hpc = Read2Pc(s) /\ revents[s] /\ pipes[s] = <<>> /\ ~Writers(s)
AtEof(s) == pipes[s] = <<>> /\ ~Writers(s)
Draining == hpc \in {"drain_1", "drain_2"}

\* C33: in read2 the bytes read before an EWOULDBLOCK stay in the buffer
\* and the loop goes on to the next readiness wait; at the first end of file
\* the other stream is set blocking and read to its end without another
\* poll, then both buffers are returned; every byte written is in its buffer
\* once, in order, and both streams are at end of file on return.
C33_Read2Drain ==
    /\ []((BothPiped /\ lastCall = "wait_with_output") =>
             \A s \in Outs : vecs[s] \o pipes[s] = wrote[s])
    /\ [][\A s \in Outs :
             /\ (WouldBlock(s) /\ hpc' # hpc) =>
                    vecs' = vecs /\ hpc' = AfterRead2(s)
             /\ (EofRead(s) /\ hpc' # hpc) =>
                    /\ hpc' = DrainPc(Other(s))
                    /\ ~nonblock'[Other(s)]
                    /\ vecs' = vecs
             /\ (hpc = DrainPc(s) /\ hpc' # hpc) =>
                    /\ hpc' \in {"out_waitpid", "consumed"}
                    /\ AtEof(1) /\ AtEof(2)
                    /\ vecs' = vecs]_vars
    /\ []((Returned /\ BothPiped) =>
             outputRet = Output(status, wrote[1], wrote[2]))
    /\ Draining ~> Returned
\* Stdout is at end of file with all its bytes in the buffer; stderr, of
\* which a part was read before an EWOULDBLOCK, is being read in blocking
\* mode and has a byte waiting.
C33_Witness ==
    /\ hpc = "drain_2" /\ BothPiped
    /\ vecs[1] = Bytes(MaxOut) /\ AtEof(1)
    /\ vecs[2] # <<>> /\ pipes[2] # <<>> /\ ~nonblock[2]

\* wait_with_output has begun with this step.
OutputBegins == lastCall' = "wait_with_output" /\ nops' # nops
\* wait_with_output is in, or past, its self.wait().
OutputWaiting ==
    lastCall = "wait_with_output" /\ hpc \in {"out_waitpid", "consumed"}

\* C34: wait_with_output runs read2 exactly when the Child holds both its
\* stdout and its stderr handle, reads the only handle held to end of file
\* when there is one (the other buffer stays empty), reads nothing when
\* there is none; the waitpid is issued when all reading is done, so the call
\* returns even when the child writes more than a pipe holds.
C34_ReadsThenWaits ==
    /\ [][OutputBegins =>
             /\ (Held(1) /\ Held(2)) <=> (hpc' = "poll")
             /\ (Held(1) /\ ~Held(2)) <=> (hpc' = "read_to_end_1")
             /\ (~Held(1) /\ Held(2)) <=> (hpc' = "read_to_end_2")
             /\ (~Held(1) /\ ~Held(2)) <=> (hpc' \in {"out_waitpid", "consumed"})
         ]_vars
    /\ [](OutputWaiting =>
             \A s \in Outs :
                 IF EffCfg(s).kind = "MakePipe"
                 THEN AtEof(s) /\ vecs[s] = wrote[s]
                 ELSE vecs[s] = <<>>)
    /\ [](Returned => outputRet = Output(status, vecs[1], vecs[2]))
    /\ (lastCall = "wait_with_output") ~> Returned
\* Only stdout was piped; the child wrote more to it than the pipe holds,
\* and wrote to its inherited stderr; the call returned all of stdout and an
\* empty stderr buffer.
C34_Witness ==
    /\ Returned /\ stdout = MakePipe /\ stderr = Unset
    /\ MaxOut > PipeCap
    /\ outputRet.stdout = Bytes(MaxOut) /\ outputRet.stderr = <<>>
    /\ wrote[2] # <<>>
\* Neither was piped.
C34_WitnessNone ==
    /\ Returned /\ stdout = Unset /\ stderr = Unset
    /\ wrote[1] # <<>> /\ outputRet = Output(0, <<>>, <<>>)

\* The objects spawn creates that are not meant for the new image: the
\* control pipe, the parent's ends of the stdio pipes, the in-memory file.
ParentOnly ==
    {PipeObj(CtlId, "r"), PipeObj(CtlId, "w"), MemfdObj}
        \cup {PipeObj(s, ParentEnd(s)) : s \in Slots}
SomeNull == \E s \in Slots : EffCfg(s).kind = "Null"

\* C35: in the new image no descriptor that spawn created is open except
\* those installed on slots 0, 1 and 2: no number above 2 is open (the
\* caller's own descriptors are close-on-exec here), and no slot refers to
\* the control pipe, a parent's end of a stdio pipe or the in-memory file.
C35_OnlySlotsSurviveExec ==
    Execd =>
        /\ \A n \in Fds \ Slots : cfds[n] = Closed
        /\ \A s \in Slots : cfds[s].obj \notin ParentOnly
\* The same, for a builder with no stream configured Null.
C35_WithoutNull == SomeNull \/ C35_OnlySlotsSurviveExec
C35_WitnessWithoutNull ==
    /\ Execd /\ ~SomeNull
    /\ stdin = MakePipe /\ stdout = MakePipe /\ stderr = Cfg("Fd", 1)
    /\ \E n \in Fds \ Slots : pfds[n].obj = PipeObj(0, "w")

\* C36: whatever env, env_remove and env_clear calls were made, the
\* environment CommandEnv::capture builds from the stored diff is the one
\* obtained by making the same calls, in order, on a copy of the process
\* environment (set assigns, remove deletes, clear empties).
C36_CaptureIsReplay == Capture(env, environ) = envRef
\* A variable was set, the environment was cleared, another was set and the
\* inherited one was removed again.
C36_Witness ==
    /\ env.clear /\ env.vars["X"] = "1" /\ env.vars["PATH"] = NotInMap
    /\ environ["PATH"] = "/bin"
    /\ envRef = [k \in Keys |-> IF k = "X" THEN "1" ELSE Absent]
\* Without a clear: the inherited variable is deleted, another is set.
C36_WitnessRemove ==
    /\ ~env.clear /\ env.vars["PATH"] = Removed /\ env.vars["X"] = "1"
    /\ envRef["PATH"] = Absent /\ envRef["X"] = "1"

\* The kinds of state change a raw status reports, by the ExitStatus queries.
FactsOf(st) ==
    {f \in {"exited", "signaled", "stopped", "continued"} :
        \/ f = "exited" /\ ExitStatusCode(st).tag = "Some"
        \/ f = "signaled" /\ ExitStatusSignal(st).tag = "Some"
        \/ f = "stopped" /\ stopped_signal(st).tag = "Some"
        \/ f = "continued" /\ continued(st)}

\* C37: for every raw wait status at most one of exited, signaled, stopped
\* and continued holds, core_dumped() implies signaled, and each query
\* returns the value computed from the raw status, which no query changes.
C37_FactsConsistent ==
    /\ [](status # NoStatus =>
             /\ Cardinality(FactsOf(status)) <= 1
             /\ core_dumped(status) => "signaled" \in FactsOf(status)
             /\ lastCall = "code" => ret = ExitStatusCode(status)
             /\ lastCall = "signal" => ret = ExitStatusSignal(status)
             /\ lastCall = "stopped_signal" => ret = stopped_signal(status)
             /\ lastCall = "core_dumped" => ret = BoolRet(core_dumped(status))
             /\ lastCall = "continued" => ret = BoolRet(continued(status))
             /\ lastCall = "into_raw" => ret = Ret("Ok", status))
    /\ [][status # NoStatus => status' = status]_vars
\* A status of a child stopped by signal 19: stopped_signal() returned 19
\* and the status is neither exited nor signaled nor continued.
C37_Witness ==
    /\ status = 19 * 256 + 127
    /\ lastCall = "stopped_signal" /\ ret = SomeI32(19)
    /\ FactsOf(status) = {"stopped"} /\ ~core_dumped(status)
\* A continued one, and one killed with a core dump.
C37_WitnessContinued ==
    /\ status = 65535 /\ lastCall = "continued" /\ ret = BoolRet(TRUE)
    /\ FactsOf(status) = {"continued"}
C37_WitnessCore ==
    /\ status = 128 + 11 /\ lastCall = "core_dumped" /\ ret = BoolRet(TRUE)
    /\ FactsOf(status) = {"signaled"}

\* C38: exit_ok() is Ok(()) for the raw status zero and an error for every
\* other raw status.
C38_ExitOkIffZero ==
    (status # NoStatus /\ lastCall = "exit_ok") =>
        /\ status = 0 => ret.tag = "Ok"
        /\ status # 0 => ret.tag = "Err"
\* exit_ok() returns an error for every raw status but zero.
C38_ErrWhenNonZero ==
    (status # NoStatus /\ status # 0 /\ lastCall = "exit_ok") =>
        ret = [tag |-> "Err", st |-> status]

\* exec was called on a builder that has seen a NUL byte.
ExecSawNul == lastCall = "exec" /\ saw_nul

\* C39: exec on a builder that has seen a NUL byte (in the name, an
\* argument, the working directory or an environment entry) returns
\* InvalidInput and has done nothing else: no stream was routed, no
\* descriptor of the caller was opened, closed or duplicated, its working
\* directory and signal state are the same, no in-memory file exists and no
\* image was started.
C39_ExecNulIsInvalidInput ==
    ExecSawNul =>
        /\ pc = "done" /\ result = Res("InvalidInput", NoErrno)
        /\ pfds = ParentTable(0) /\ cfds = AllClosed
        /\ \A s \in Slots : /\ theirs[s] = CInherit /\ ours[s] = NoFd
                            /\ nullMode[s] = "none"
        /\ cstate = CallerState
        /\ mfd = NoFd /\ image = NoImage /\ proc = "none"
\* The only NUL is in an environment value, found when exec captures the
\* environment; pipes, the null device and a working directory were asked for.
C39_Witness ==
    /\ ExecSawNul /\ pc = "done" /\ result = Res("InvalidInput", NoErrno)
    /\ env.vars["X"] = "v\\0" /\ argv = <<"prog">> /\ cwd = "good"
    /\ stdin = Null /\ stdout = MakePipe
    /\ pfds = ParentTable(0)
\* The NUL was in the name given to new.
C39_WitnessName ==
    /\ ExecSawNul /\ result = Res("InvalidInput", NoErrno)
    /\ program = "<string-with-nul>" /\ IsUnchanged(env) /\ cwd = "None"
    /\ Len(argv) = 1

\* C40: the builder's program name is argv[0].
C40_ProgramIsArgv0 == program = argv[1]
\* Each call either leaves argv alone, appends one argument, or replaces
\* argv[0]: the arguments stay in the order they were added, after the name.
C40_ArgvOrder ==
    [][\/ argv' = argv
       \/ \E a \in {"-l", "a\\0b"} : argv' = Append(argv, os2c(a))
       \/ \E name \in {"dir/prog", "p\\0"} :
              argv' = <<os2c(name)>> \o Tail(argv)]_vars
C40_WitnessArgvOrder ==
    /\ argv = <<"dir/prog", "-l">> /\ program = "prog"
====
